---- MODULE Spec2Model ----
(***************************************************************************)
(* A model of BlindingApp: the keyword substitution engine of              *)
(* FileBlinder (src/file_blinder.py), the rule store of the web front end  *)
(* (src/web_server.py) and the three DOCX redaction pipelines that         *)
(* FileBlinder.blind_file dispatches to, with their exception paths, and   *)
(* the loops that unwrap content controls and hyperlinks and strip         *)
(* shading and borders on the element tree, two concurrent invocations of  *)
(* blind_file with the files they write and the namespace registry they    *)
(* share, and the preview's structure extraction and generate_diff.        *)
(*                                                                         *)
(* Text is a sequence of one-character strings.  A pattern is a sequence   *)
(* of tokens: a one-character string, or the two-character anchor \b.      *)
(***************************************************************************)
EXTENDS Integers, Sequences, FiniteSets, TLC

VARIABLES
    keywords,               \* what load_keywords() returns: the stored rule list
    keyword_replacements,   \* FileBlinder.keyword_replacements, in insertion order
    kpc,                    \* position in construct / replace_keywords_in_text
    orig_text,              \* the argument of replace_keywords_in_text
    text,                   \* its local variable `text`
    idx,                    \* the position of its for loop in the mapping
    image_hashes_to_remove, \* FileBlinder.image_hashes_to_remove
    method,                 \* blind_file's method argument
    opts,                   \* standardize_formatting, font_color_black, remove_shading
    input,                  \* the DOCX container at input_path
    extension,              \* input_path.suffix.lower()
    work,                   \* the extracted container in the current scratch directory
    staged,                 \* the intermediate DOCX file handed to the next phase
    output,                 \* the container written to output_path
    pc,                     \* position in blind_file
    images_to_remove,       \* local set of media file names
    rel_ids_to_remove,      \* local set of relationship ids
    rels_files_to_update,   \* local list of relationship tables
    written,                \* the structural edits serialized so far
    scratch,                \* the scratch directories and temporary files that exist
    text_replacements,      \* the counter the pipeline reports
    result,                 \* what blind_file returns
    skipped,                \* the parts whose processing was abandoned
    unwrap,                 \* which unwrapping loop runs on the element tree
    tree,                   \* the element tree: each element's list of children
    tree0,                  \* the tree as it was parsed
    parent_map,             \* {c: p for p in tree.iter() for c in p}
    found,                  \* the rest of the list the loop iterates over
    underlined,             \* the runs whose w:rPr holds a w:u
    tpc,                    \* position in the unwrapping loop
    namespace_map,          \* xml.etree.ElementTree._namespace_map, one per process
    fs,                     \* the files the invocations read and write, by path
    jobs,                   \* what each concurrent invocation was called on
    wk,                     \* each invocation's position and local state
    docs,                   \* the files at input_path and output_path of a preview
    original_structure,     \* extract_document_structure(input_path)
    processed_structure,    \* extract_document_structure(output_path)
    diff_data,              \* what generate_diff returns
    dpc                     \* position in the preview

docVars == <<image_hashes_to_remove, method, opts, input, extension, work, staged,
             output, pc,
             images_to_remove, rel_ids_to_remove, rels_files_to_update, written,
             scratch, text_replacements, result, skipped>>

vars == <<keywords, keyword_replacements, kpc, orig_text, text, idx,
          image_hashes_to_remove, method, opts, input, extension, work, staged,
          output, pc,
          images_to_remove, rel_ids_to_remove, rels_files_to_update, written,
          scratch, text_replacements, result, skipped,
          unwrap, tree, tree0, parent_map, found, underlined, tpc,
          namespace_map, fs, jobs, wk,
          docs, original_structure, processed_structure, diff_data, dpc>>

treeVars == <<unwrap, tree, tree0, parent_map, found, underlined, tpc>>

workerVars == <<namespace_map, fs, jobs, wk>>

diffVars == <<docs, original_structure, processed_structure, diff_data, dpc>>

serverVars == <<workerVars, diffVars>>

-----------------------------------------------------------------------------
(* Bounds of the model.                                                    *)

MaxRules == 2

MaxLen == 2

\* The characters texts are drawn from: a letter in both cases, a second
\* letter, and a non-word character.
Alphabet == {"a", "A", "b", " "}

WB == "\\b"

\* The rules the stored list is drawn from: a literal, a literal whose
\* replacement a later rule matches, an anchored regex, a character class,
\* the empty pattern, an unterminated character class, the rule "secret"
\* of load_keywords' default list, and a pattern with a character class
\* after its first character.
CandidateRules ==
    { [original |-> <<"a">>,            replacement |-> <<"b">>],
      [original |-> <<"s","e","c","r","e","t">>,
       replacement |-> <<"R","E","D","A","C","T","E","D">>],
      [original |-> <<"b">>,            replacement |-> <<"c">>],
      [original |-> <<WB, "a">>,        replacement |-> <<"X">>],
      [original |-> <<"[", "a", "b", "]">>, replacement |-> <<"a", "a">>],
      [original |-> <<>>,               replacement |-> <<"X">>],
      [original |-> <<"[", "a">>,       replacement |-> <<"X">>],
      [original |-> <<"a", "[", "b", "]">>, replacement |-> <<"X">>] }

\* The rules that also occur switched off in the stored list.
DisabledCandidates ==
    { r \in CandidateRules : r.original \in { <<"a">>, <<"s","e","c","r","e","t">> } }

StoredRules ==
    { [original |-> r.original, replacement |-> r.replacement, enabled |-> TRUE] :
        r \in CandidateRules }
    \cup
    { [original |-> r.original, replacement |-> r.replacement, enabled |-> FALSE] :
        r \in DisabledCandidates }

RECURSIVE SeqsUpTo(_, _)
SeqsUpTo(S, n) ==
    IF n = 0 THEN {<<>>}
    ELSE LET shorter == SeqsUpTo(S, n - 1)
         IN  shorter \cup { Append(s, x) : s \in shorter, x \in S }

\* The texts the engine is called on: every text over Alphabet up to MaxLen,
\* and two words of the default list.
Texts ==
    SeqsUpTo(Alphabet, MaxLen)
    \cup { <<"s","e","c","r","e","t">>, <<"i","n","t","e","r","n","a","l">> }

-----------------------------------------------------------------------------
(* Characters.                                                             *)

UpperCase == <<"A","B","C","D","E","F","G","H","I","J","K","L","M",
               "N","O","P","Q","R","S","T","U","V","W","X","Y","Z">>

LowerCase == <<"a","b","c","d","e","f","g","h","i","j","k","l","m",
               "n","o","p","q","r","s","t","u","v","w","x","y","z">>

Digits == {"0","1","2","3","4","5","6","7","8","9"}

\* re.IGNORECASE compares characters case-folded.
Lower(c) ==
    IF \E i \in 1..26 : UpperCase[i] = c
    THEN LowerCase[CHOOSE i \in 1..26 : UpperCase[i] = c]
    ELSE c

\* \w of the re module.
IsWord(c) ==
    \/ \E i \in 1..26 : UpperCase[i] = c \/ LowerCase[i] = c
    \/ c \in Digits
    \/ c = "_"

\* \b at position pos (between t[pos-1] and t[pos]).
IsBoundary(t, pos) ==
    LET before == pos > 1 /\ IsWord(t[pos - 1])
        after  == pos <= Len(t) /\ IsWord(t[pos])
    IN  before # after

-----------------------------------------------------------------------------
(* The default rules of FileBlinder.__init__.  The three regex defaults    *)
(* (e-mail, phone, SSN) need '@' or nine digits and match no text over     *)
(* Alphabet; the five literal defaults are kept letter by letter.          *)

DEFAULT_REPLACEMENTS ==
    << [original |-> <<"c","o","n","f","i","d","e","n","t","i","a","l">>,
        replacement |-> <<"[","R","E","D","A","C","T","E","D","]">>],
       [original |-> <<"s","e","c","r","e","t">>,
        replacement |-> <<"[","R","E","D","A","C","T","E","D","]">>],
       [original |-> <<"i","n","t","e","r","n","a","l">>,
        replacement |-> <<"[","I","N","T","E","R","N","A","L","]">>],
       [original |-> <<"p","r","o","p","r","i","e","t","a","r","y">>,
        replacement |-> <<"[","P","R","O","P","R","I","E","T","A","R","Y","]">>],
       [original |-> <<"c","l","a","s","s","i","f","i","e","d">>,
        replacement |-> <<"[","C","L","A","S","S","I","F","I","E","D","]">>] >>

-----------------------------------------------------------------------------
(* web_server.get_active_keywords and FileBlinder.__init__.                *)

\* A dict comprehension over the stored list: a key that occurs again keeps
\* its first position and takes the later value.
RECURSIVE DictFromPairs(_)
DictFromPairs(pairs) ==
    IF pairs = <<>> THEN <<>>
    ELSE LET n    == Len(pairs)
             head == DictFromPairs(SubSeq(pairs, 1, n - 1))
             last == pairs[n]
         IN  IF \E i \in 1..Len(head) : head[i].original = last.original
             THEN [i \in 1..Len(head) |->
                      IF head[i].original = last.original THEN last ELSE head[i]]
             ELSE Append(head, last)

RECURSIVE EnabledOnly(_)
EnabledOnly(kws) ==
    IF kws = <<>> THEN <<>>
    ELSE LET rest == EnabledOnly(Tail(kws))
             kw   == Head(kws)
         IN  IF kw.enabled
             THEN <<[original |-> kw.original, replacement |-> kw.replacement]>> \o rest
             ELSE rest

get_active_keywords(kws) == DictFromPairs(EnabledOnly(kws))

\* self.keyword_replacements = keyword_replacements or {defaults}: an empty
\* dict is falsy.
InitKeywordReplacements(given) ==
    IF given = <<>> THEN DEFAULT_REPLACEMENTS ELSE given

-----------------------------------------------------------------------------
(* re.sub over the token language.                                         *)

\* original.startswith(r'\b') or original.startswith(r'[')
IsRegex(original) ==
    /\ Len(original) >= 1
    /\ original[1] \in {WB, "["}

\* The rule list of the web front end shows the REGEX badge on a rule whose
\* pattern starts with \b or includes '['.
RegexIndicator(original) ==
    \/ (original # <<>> /\ original[1] = WB)
    \/ \E k \in 1..Len(original) : original[k] = "["

\* The index of the ']' closing the class opened at position i, or 0.  The
\* first member of a class is taken as is.
ClassEnd(p, i) ==
    IF \E j \in (i + 2)..Len(p) : p[j] = "]"
    THEN CHOOSE j \in (i + 2)..Len(p) :
            p[j] = "]" /\ \A k \in (i + 2)..(j - 1) : p[k] # "]"
    ELSE 0

\* re.compile of a regex pattern: its elements, or ok = FALSE (re.error)
\* when a character class is unterminated.
RECURSIVE Compile(_, _)
Compile(p, i) ==
    IF i > Len(p) THEN [ok |-> TRUE, els |-> <<>>]
    ELSE IF p[i] = WB
    THEN LET rest == Compile(p, i + 1)
         IN  [ok |-> rest.ok, els |-> <<[k |-> "wb", set |-> {}]>> \o rest.els]
    ELSE IF p[i] = "["
    THEN LET j == ClassEnd(p, i)
         IN  IF j = 0 THEN [ok |-> FALSE, els |-> <<>>]
             ELSE LET rest == Compile(p, j + 1)
                  IN  [ok |-> rest.ok,
                       els |-> <<[k |-> "cls",
                                  set |-> {Lower(p[m]) : m \in (i + 1)..(j - 1)}]>>
                               \o rest.els]
    ELSE LET rest == Compile(p, i + 1)
         IN  [ok |-> rest.ok,
              els |-> <<[k |-> "cls", set |-> {Lower(p[i])}]>> \o rest.els]

\* re.escape(original): every token stands for itself.
Escaped(p) ==
    [ok |-> TRUE, els |-> [i \in 1..Len(p) |-> [k |-> "cls", set |-> {Lower(p[i])}]]]

\* The position after a match of els[e..] starting at pos, or 0.
RECURSIVE MatchEnd(_, _, _, _)
MatchEnd(els, e, t, pos) ==
    IF e > Len(els) THEN pos
    ELSE IF els[e].k = "wb"
    THEN IF IsBoundary(t, pos) THEN MatchEnd(els, e + 1, t, pos) ELSE 0
    ELSE IF pos <= Len(t) /\ Lower(t[pos]) \in els[e].set
         THEN MatchEnd(els, e + 1, t, pos + 1)
         ELSE 0

\* re.sub(pattern, replacement, t): leftmost non-overlapping matches, an
\* empty match replaced where it stands.
RECURSIVE SubFrom(_, _, _, _)
SubFrom(els, repl, t, pos) ==
    IF pos > Len(t) + 1 THEN <<>>
    ELSE LET end == MatchEnd(els, 1, t, pos)
         IN  IF end = 0
             THEN IF pos > Len(t) THEN <<>>
                  ELSE <<t[pos]>> \o SubFrom(els, repl, t, pos + 1)
             ELSE IF end = pos
             THEN repl \o (IF pos > Len(t) THEN <<>>
                           ELSE <<t[pos]>> \o SubFrom(els, repl, t, pos + 1))
             ELSE repl \o SubFrom(els, repl, t, end)

\* The number of matches re.sub replaces (re.findall finds the same ones).
RECURSIVE CountFrom(_, _, _)
CountFrom(els, t, pos) ==
    IF pos > Len(t) + 1 THEN 0
    ELSE LET end == MatchEnd(els, 1, t, pos)
         IN  IF end = 0 \/ end = pos
             THEN (IF end = pos THEN 1 ELSE 0)
                  + (IF pos > Len(t) THEN 0 ELSE CountFrom(els, t, pos + 1))
             ELSE 1 + CountFrom(els, t, end)

\* The compiled form the loop body of replace_keywords_in_text hands to
\* re.sub for one rule.
RulePattern(original) ==
    IF IsRegex(original) THEN Compile(original, 1) ELSE Escaped(original)

\* One iteration of the loop: text = re.sub(..., text, flags=re.IGNORECASE).
ApplyRule(rule, t) ==
    SubFrom(RulePattern(rule.original).els, rule.replacement, t, 1)

\* re.sub compiles every rule of the list without raising re.error.
AllCompile(kr) == \A i \in 1..Len(kr) : RulePattern(kr[i].original).ok

-----------------------------------------------------------------------------
(* Element trees.  An element is a number; the tree maps each element to   *)
(* the list of its children, as ElementTree and lxml hold it.              *)

Root == 1

\* Two wrappers (content controls or hyperlinks), the w:sdtContent and
\* w:sdtPr of each, and four leaves (paragraphs or runs).
Wrappers == {2, 3}

ContentOf(w) == w + 2

PrOf(w) == w + 4

Leaves == {8, 9, 10, 11}

\* The elements of a table: see TableName.
TableNodes == 1..16

Nodes == {Root} \cup Wrappers \cup {4, 5, 6, 7} \cup Leaves \cup TableNodes

NoNode == 0

EmptyTree == [n \in Nodes |-> <<>>]

\* No tree has been parsed.
TreeIdle ==
    /\ unwrap = "none"
    /\ tree = EmptyTree
    /\ tree0 = EmptyTree
    /\ parent_map = [n \in Nodes |-> NoNode]
    /\ found = <<>>
    /\ underlined = {}
    /\ tpc = "idle"

-----------------------------------------------------------------------------
(* The state concurrent invocations of blind_file share in one process:    *)
(* ElementTree's namespace registry, and the file system.                  *)

\* The namespaces the pipelines register a prefix for: wordprocessingml
\* (W), officeDocument relationships (R), package relationships (RELS),
\* drawingml (A), VML (V) and office (O).
URIs == {"W", "R", "RELS", "A", "V", "O"}

\* No prefix is registered for a namespace.
NoPrefix == "none"

\* The registry of a process that has not called register_namespace: it
\* holds none of the six namespaces.
FreshMap == [u \in URIs |-> NoPrefix]

Workers == {1, 2}

\* The stems of the .docx files of one directory.
Stems == {"a", "b", "a_temp_no_selected_images"}

\* docx_path.parent / f"{docx_path.stem}_temp_no_selected_images.docx"
TempNoImages(stem) ==
    CASE stem = "a" -> "a_temp_no_selected_images"
      [] stem = "b" -> "b_temp_no_selected_images"
      [] OTHER      -> "a_temp_no_selected_images_temp_no_selected_images"

\* tempfile.NamedTemporaryFile(delete=False, suffix='.docx').name, unique to
\* the call that makes it.
Preprocessed(i) == IF i = 1 THEN "tmp1.docx" ELSE "tmp2.docx"

\* The output path process_file hands to blind_file, a NamedTemporaryFile.
OutputPath(i) == IF i = 1 THEN "out1.docx" ELSE "out2.docx"

Paths ==
    Stems \cup { TempNoImages(st) : st \in Stems }
          \cup { Preprocessed(i) : i \in Workers } \cup { OutputPath(i) : i \in Workers }

Absent == [doc |-> "absent", prefixes |-> <<>>]

\* No preview is being made.
DiffIdle ==
    /\ docs = <<>>
    /\ original_structure = <<>>
    /\ processed_structure = <<>>
    /\ diff_data = <<>>
    /\ dpc = "idle"

\* No invocation runs.
ServerIdle ==
    /\ namespace_map = FreshMap
    /\ fs = [path \in Paths |-> Absent]
    /\ jobs = <<>>
    /\ wk = <<>>
    /\ DiffIdle

-----------------------------------------------------------------------------
(* The engine, step by step: construction, then one call of                *)
(* replace_keywords_in_text.                                               *)

KwInit ==
    /\ keywords \in SeqsUpTo(StoredRules, MaxRules)
    /\ keyword_replacements = <<>>
    /\ kpc = "new"
    /\ orig_text = <<>>
    /\ text = <<>>
    /\ idx = 0
    /\ image_hashes_to_remove = {}
    /\ method = "safe"
    /\ opts = [standardize_formatting |-> TRUE, font_color_black |-> TRUE,
               remove_shading |-> TRUE]
    /\ input = <<>>
    /\ extension = ".docx"
    /\ work = <<>>
    /\ staged = <<>>
    /\ output = <<>>
    /\ pc = "idle"
    /\ images_to_remove = {}
    /\ rel_ids_to_remove = {}
    /\ rels_files_to_update = {}
    /\ written = {}
    /\ scratch = {}
    /\ text_replacements = 0
    /\ result = "pending"
    /\ skipped = {}
    /\ ServerIdle
    /\ TreeIdle

\* process_file: FileBlinder(keyword_replacements=get_active_keywords(), ...)
Construct ==
    /\ kpc = "new"
    /\ keyword_replacements' = InitKeywordReplacements(get_active_keywords(keywords))
    /\ kpc' = "ready"
    /\ UNCHANGED <<keywords, orig_text, text, idx>>
    /\ UNCHANGED <<docVars, serverVars>>
    /\ UNCHANGED treeVars

\* replace_keywords_in_text(t): `if not text: return text`, else enter the loop.
Call(t) ==
    /\ kpc = "ready"
    /\ orig_text' = t
    /\ text' = t
    /\ idx' = 1
    /\ kpc' = IF t = <<>> THEN "done" ELSE "loop"
    /\ UNCHANGED <<keywords, keyword_replacements>>
    /\ UNCHANGED <<docVars, serverVars>>
    /\ UNCHANGED treeVars

\* The rule the for loop visits at its position i.
RuleAt(kr, i) == kr[i]

\* A loop that hands every rule the argument instead of the rebound local.
ScannedArgument(current, original) == original

\* The text one loop iteration scans.
Scanned(current, original) == current

\* One iteration: re.sub raises re.error on a malformed regex, else the
\* local `text` is rebound to the substituted text.
Step ==
    /\ kpc = "loop"
    /\ idx <= Len(keyword_replacements)
    /\ LET rule == RuleAt(keyword_replacements, idx)
       IN  IF RulePattern(rule.original).ok
           THEN /\ text' = ApplyRule(rule, Scanned(text, orig_text))
                /\ idx' = idx + 1
                /\ kpc' = "loop"
           ELSE /\ kpc' = "error"
                /\ UNCHANGED <<text, idx>>
    /\ UNCHANGED <<keywords, keyword_replacements, orig_text>>
    /\ UNCHANGED <<docVars, serverVars>>
    /\ UNCHANGED treeVars

\* return text
Return ==
    /\ kpc = "loop"
    /\ idx > Len(keyword_replacements)
    /\ kpc' = "done"
    /\ UNCHANGED <<keywords, keyword_replacements, orig_text, text, idx>>
    /\ UNCHANGED <<docVars, serverVars>>
    /\ UNCHANGED treeVars

KwNext ==
    \/ Construct
    \/ \E t \in Texts : Call(t)
    \/ Step
    \/ Return

SpecKw == KwInit /\ [][KwNext]_vars


\* replace_keywords_in_text as a function of its argument and the mapping:
\* the loop above run to its end.
RECURSIVE LoopFrom(_, _, _, _)
LoopFrom(current, original, kr, i) ==
    IF i > Len(kr) THEN current
    ELSE LoopFrom(ApplyRule(RuleAt(kr, i), Scanned(current, original)),
                  original, kr, i + 1)

replace_keywords_in_text(t, kr) ==
    IF t = <<>> THEN t ELSE LoopFrom(t, t, kr, 1)

-----------------------------------------------------------------------------
(* DOCX containers.                                                        *)
(*                                                                         *)
(* A container has three XML parts, each a sequence of runs, one           *)
(* relationship table per part, and the files under word/media.  A run     *)
(* carries at most one embedding (mech, rid), its text, and the direct     *)
(* formatting the pipelines touch.                                         *)

MaxRuns == 2

Parts == {"document", "header1", "footer1"}

RelIds == {"rId1", "rId2"}

NoRel == "none"

MediaFiles == {"image1.png", "image2.png"}

\* The Target attribute of a relationship to a media file.
TargetOf(f) == IF f = "image1.png" THEN "media/image1.png" ELSE "media/image2.png"

MediaTargets == { TargetOf(f) : f \in MediaFiles }

OtherTarget == "styles.xml"

\* 'media/' in target
IsMediaTarget(target) == target \in MediaTargets

\* Path(target).name
FileName(target) == CHOOSE f \in MediaFiles : TargetOf(f) = target

\* The bytes of the two media files, and their SHA-256 digests.
ImageData == [f \in MediaFiles |-> IF f = "image1.png" THEN "D1" ELSE "D2"]

sha256(data) == IF data = "D1" THEN "H1" ELSE "H2"

\* The three ways a run embeds an asset: w:drawing with a:blip r:embed,
\* w:pict with v:imagedata r:id, w:object with v:imagedata r:id.
Mechanisms == {"drawing", "pict", "object"}

NoFont == [name |-> "none", size |-> 0]

Black == "000000"

\* The font FileBlinder is constructed with.
font_name == "Calibri"

font_size == 11

PlainRun(t) ==
    [mech |-> "none", rid |-> NoRel, text |-> t,
     rPr |-> FALSE, color |-> "none", shd |-> FALSE, font |-> NoFont,
     hyperlink |-> FALSE]

\* A run that is a child of a w:hyperlink, not of the paragraph.
LinkRun(t) == [PlainRun(t) EXCEPT !.hyperlink = TRUE]

ImageRun(m, r, t) == [PlainRun(t) EXCEPT !.mech = m, !.rid = r]

FormattedRun(t, c, s, f) ==
    [PlainRun(t) EXCEPT !.rPr = TRUE, !.color = c, !.shd = s, !.font = f]

\* Where the paragraphs of a part carry a w:pStyle: nowhere, as a child of
\* the paragraph's w:pPr, or also inside the w:pPr of a w:pPrChange (a
\* tracked change of the paragraph style).
PStyles == {"none", "direct", "nested"}

NoStyles == [p \in Parts |-> "none"]

EmptyContainer ==
    [parts  |-> [p \in Parts |-> <<>>],
     rels   |-> [p \in Parts |-> [r \in RelIds |-> NoRel]],
     media  |-> [f \in {} |-> "D1"],
     pstyle |-> NoStyles]

MapRuns(runs, F(_)) == [i \in 1..Len(runs) |-> F(runs[i])]

\* The media files present in a container.
Present(c) == DOMAIN c.media

\* unlink() of the named media files.
Unlink(c, files) ==
    [c EXCEPT !.media = [f \in Present(c) \ files |-> c.media[f]]]

\* `for pStyle in pPr.findall('.//w:pStyle'): pPr.remove(pStyle)` raises
\* ValueError on a w:pStyle that is a descendant but not a child of the w:pPr.
PStyleRaises(c, p) == c.pstyle[p] = "nested"

\* The same loop where it does not raise: no w:pStyle is left in the part.
RemovePStyle(c, p) == [c EXCEPT !.pstyle[p] = "none"]

\* python-docx's `paragraph.style = doc.styles['Normal']` drops the w:pStyle
\* child of the paragraph's own w:pPr and nothing below a w:pPrChange.
ResetStyle(c) ==
    [c EXCEPT !.pstyle = [p \in Parts |-> IF @[p] = "direct" THEN "none" ELSE @[p]]]

\* Some run of the sequence has text, so replace_keywords_in_text gets past
\* `if not text` and reaches re.sub.
TextIn(runs) == \E i \in 1..Len(runs) : runs[i].text # <<>>

\* re.sub raises re.error: the mapping holds a malformed regex and some text
\* is handed to replace_keywords_in_text.
ReError(runs, kr) == ~AllCompile(kr) /\ TextIn(runs)

-----------------------------------------------------------------------------
(* Operations on runs.                                                     *)

\* Drop the runs a predicate selects (collect, then parent.remove(run)).
DropRuns(runs, Hit(_)) == SelectSeq(runs, LAMBDA run : ~Hit(run))

\* The number of runs a predicate selects.
CountRuns(runs, Hit(_)) == Len(SelectSeq(runs, Hit))

\* The test of remove_selected_image_runs: a drawing/pict/object child is
\* searched for a blip element with an r:embed attribute.  Only a w:drawing
\* holds one; the v:imagedata of w:pict and w:object carries r:id instead.
SimpleHit(run, ids) == run.mech = "drawing" /\ run.rid \in ids

remove_selected_image_runs(runs, ids) ==
    DropRuns(runs, LAMBDA run : SimpleHit(run, ids))

\* The test of remove_images_from_tree: a w:drawing blip with r:embed, or a
\* v:imagedata with r:id under w:pict or under w:object.
TreeHit(run, ids) == run.mech \in Mechanisms /\ run.rid \in ids

remove_images_from_tree(runs, ids) ==
    DropRuns(runs, LAMBDA run : TreeHit(run, ids))

\* "FORCE ALL TEXT TO BLACK": every w:rPr gets <w:color w:val="000000"/>.
ForceBlack(run) == IF run.rPr THEN [run EXCEPT !.color = Black] ELSE run

\* "REMOVE ALL SHADING": every w:shd is removed from its parent.
RemoveShd(run) == [run EXCEPT !.shd = FALSE]

\* The text of a w:t element, replaced when non-empty.
ReplaceText(run, kr) ==
    [run EXCEPT !.text = replace_keywords_in_text(run.text, kr)]

\* How many elements of a part the keyword loop changes.
Replaced(runs, kr) ==
    CountRuns(runs, LAMBDA run : replace_keywords_in_text(run.text, kr) # run.text)

\* python-docx: assigning run.text clears the run's content (everything but
\* w:rPr) before the new text is added.
SetRunText(run, kr) ==
    LET new_text == replace_keywords_in_text(run.text, kr)
    IN  IF new_text # run.text
        THEN [run EXCEPT !.text = new_text, !.mech = "none", !.rid = NoRel]
        ELSE run

standardize_run_formatting(run, o) ==
    IF ~o.standardize_formatting THEN run
    ELSE [run EXCEPT !.rPr   = TRUE,
                     !.font  = [name |-> font_name, size |-> font_size],
                     !.color = IF o.font_color_black THEN Black ELSE @,
                     !.shd   = FALSE]

\* remove_hyperlinks_from_paragraph: the runs of a hyperlink become runs of
\* the paragraph, then the closing loop over paragraph.runs.
remove_hyperlinks_from_paragraph(run, o) ==
    [run EXCEPT !.rPr = TRUE,
                !.color = IF o.font_color_black THEN Black ELSE @,
                !.hyperlink = FALSE]

\* paragraph.runs of python-docx: the w:r children of the w:p; a run below
\* a w:hyperlink is not among them.
InParagraphRuns(run) == ~run.hyperlink

\* remove_paragraph_shading: every shd element under the paragraph goes.
remove_paragraph_shading(run) == [run EXCEPT !.shd = FALSE]

\* python-docx loads the parts reachable through the relationship tables and
\* saves those: a media file no table targets is not written.
Reachable(c) ==
    { f \in Present(c) : \E p \in Parts, r \in RelIds : c.rels[p][r] = TargetOf(f) }

DocumentSave(c) == [c EXCEPT !.media = [f \in Reachable(c) |-> c.media[f]]]

\* Relationship entries whose Id is in the set are removed from a table,
\* whatever they target.
RemoveRels(table, ids) == [r \in RelIds |-> IF r \in ids THEN NoRel ELSE table[r]]

\* The ids of a table's entries that target one of the named media files.
IdsTargeting(table, files) ==
    { r \in RelIds : IsMediaTarget(table[r]) /\ FileName(table[r]) \in files }

-----------------------------------------------------------------------------
(* The documents and settings blind_file is run on.                        *)

\* The mapping the pipelines are constructed with: the rule a -> b.
DocRules == << [original |-> <<"a">>, replacement |-> <<"b">>] >>

DefaultOpts ==
    [standardize_formatting |-> TRUE, font_color_black |-> TRUE, remove_shading |-> TRUE]

OptionSets ==
    [standardize_formatting : BOOLEAN, font_color_black : BOOLEAN, remove_shading : BOOLEAN]

\* No selection with either method, and a selection of image1's hash (the
\* method is not consulted then).
Modes ==
    { [selection |-> {},     method |-> "safe"],
      [selection |-> {},     method |-> "xml"],
      [selection |-> {"H1"}, method |-> "safe"] }

Table(t1, t2) == [r \in RelIds |-> IF r = "rId1" THEN t1 ELSE t2]

\* The relationship tables a part is given: none, either image as rId1,
\* and image1 as rId2 after a non-media entry.
RelsOptions ==
    { Table(NoRel, NoRel),
      Table("media/image1.png", NoRel),
      Table("media/image2.png", NoRel),
      Table(OtherTarget, "media/image1.png") }

\* The media files a well-formed package holds: those its tables target.
Targeted(rels) ==
    { f \in MediaFiles : \E p \in Parts, r \in RelIds : rels[p][r] = TargetOf(f) }

MediaOf(rels) == [f \in Targeted(rels) |-> ImageData[f]]

RunsOf(placed, p) ==
    LET here == SelectSeq(placed, LAMBDA t : t.part = p)
    IN  [i \in 1..Len(here) |-> ImageRun(here[i].mech, here[i].rid, <<>>)]

\* Image documents: up to MaxRuns image runs spread over the parts.
ImageInputs ==
    { [parts |-> [p \in Parts |-> RunsOf(placed, p)],
       rels  |-> rels,
       media |-> MediaOf(rels),
       pstyle |-> NoStyles] :
        rels \in [Parts -> RelsOptions],
        placed \in SeqsUpTo([part : Parts, mech : Mechanisms, rid : RelIds], MaxRuns) }

WellFormed(c) ==
    \A p \in Parts : \A i \in 1..Len(c.parts[p]) :
        c.parts[p][i].mech # "none" => IsMediaTarget(c.rels[p][c.parts[p][i].rid])

\* Text documents: body and header hold image1 as rId1; runs carry text that
\* the rule matches ("a"), text it does not ("b"), and drawings with or
\* without text beside them.
TextRuns ==
    { PlainRun(<<"a">>), PlainRun(<<"b">>),
      ImageRun("drawing", "rId1", <<>>), ImageRun("drawing", "rId1", <<"b">>),
      ImageRun("pict", "rId1", <<"b">>) }

TextRels ==
    [p \in Parts |-> IF p = "footer1" THEN Table(NoRel, NoRel)
                     ELSE Table("media/image1.png", NoRel)]

TextInputs ==
    { [parts |-> [p \in Parts |-> IF p = "document" THEN body
                                  ELSE IF p = "header1" THEN head ELSE <<>>],
       rels  |-> TextRels,
       media |-> MediaOf(TextRels),
       pstyle |-> NoStyles] :
        body \in SeqsUpTo(TextRuns, MaxRuns),
        head \in SeqsUpTo(TextRuns, 1) }

\* Formatted documents: no images; one run in the body and one in the header
\* with or without direct formatting.
Fonts == { NoFont, [name |-> "Arial", size |-> 14] }

FormatRuns ==
    { PlainRun(<<"b">>) } \cup
    { FormattedRun(<<"b">>, c, sh, f) :
        c \in {"none", "FF0000", Black}, sh \in BOOLEAN, f \in Fonts }

FormatInputs ==
    { [parts |-> [p \in Parts |-> IF p = "document" THEN <<body>>
                                  ELSE IF p = "header1" THEN <<head>> ELSE <<>>],
       rels  |-> [p \in Parts |-> Table(NoRel, NoRel)],
       media |-> MediaOf([p \in Parts |-> Table(NoRel, NoRel)]),
       pstyle |-> NoStyles] :
        body \in FormatRuns, head \in FormatRuns }

\* Suffixes of input paths: the one whose pipelines are modelled here, and
\* two that blind_file and extract_document_structure have no branch for.
Unsupported == {".pdf", ".doc"}

\* A mapping whose second rule is an unterminated character class.
BadRules ==
    << [original |-> <<"a">>, replacement |-> <<"b">>],
       [original |-> <<"[", "a">>, replacement |-> <<"X">>] >>

\* Documents with at most one run in the body and in the header (a text
\* run the rule a -> b matches once or twice, a drawing of image1 with or
\* without text, or a run inside a hyperlink that the rule matches), whose
\* body and header paragraphs carry a w:pStyle in
\* any of the three ways.
FaultRuns ==
    { <<>>, <<PlainRun(<<"a">>)>>, <<PlainRun(<<"a", "a">>)>>,
      <<ImageRun("drawing", "rId1", <<>>)>>,
      <<ImageRun("drawing", "rId1", <<"b">>)>>,
      <<LinkRun(<<"a">>)>> }

FaultInputs ==
    { [parts  |-> [p \in Parts |-> IF p = "document" THEN body
                                   ELSE IF p = "header1" THEN head ELSE <<>>],
       rels   |-> TextRels,
       media  |-> MediaOf(TextRels),
       pstyle |-> [p \in Parts |-> IF p = "document" THEN sb
                                   ELSE IF p = "header1" THEN sh ELSE "none"]] :
        body \in FaultRuns, head \in FaultRuns, sb \in PStyles, sh \in PStyles }

Init ==
    /\ keywords = <<>>
    /\ kpc = "idle"
    /\ orig_text = <<>>
    /\ text = <<>>
    /\ idx = 0
    /\ \E m \in Modes : image_hashes_to_remove = m.selection /\ method = m.method
    /\ \/ /\ input \in { c \in ImageInputs : WellFormed(c) } \cup TextInputs
          /\ extension = ".docx"
          /\ opts = DefaultOpts
          /\ keyword_replacements = DocRules
       \/ /\ input \in FormatInputs
          /\ extension = ".docx"
          /\ opts \in OptionSets
          /\ keyword_replacements = DocRules
       \/ /\ input \in FaultInputs
          /\ extension = ".docx"
          /\ opts = DefaultOpts
          /\ keyword_replacements \in {DocRules, BadRules}
       \/ /\ input \in TextInputs
          /\ extension \in Unsupported
          /\ opts = DefaultOpts
          /\ keyword_replacements = DocRules
    /\ work = EmptyContainer
    /\ staged = EmptyContainer
    /\ output = EmptyContainer
    /\ pc = "start"
    /\ images_to_remove = {}
    /\ rel_ids_to_remove = {}
    /\ rels_files_to_update = {}
    /\ written = {}
    /\ scratch = {}
    /\ text_replacements = 0
    /\ result = "pending"
    /\ skipped = {}
    /\ ServerIdle
    /\ TreeIdle

-----------------------------------------------------------------------------
(* blind_file and process_docx_safe, whose step 0 is                       *)
(* remove_selected_images_simple.                                          *)

engine == <<keywords, keyword_replacements, kpc, orig_text, text, idx>>

settings == <<image_hashes_to_remove, method, opts, input, extension>>

outcome == <<result, skipped>>

\* blind_file on a .docx: the selective pipeline if a selection was given,
\* else the pipeline the method names.  The ValueError of the final else
\* (no branch for the suffix) is raised inside the try: the except clause
\* prints it and blind_file returns None.
BlindFile ==
    /\ pc = "start"
    /\ IF extension \in Unsupported
       THEN /\ pc' = "failed"
            /\ result' = "None"
       ELSE /\ pc' = IF image_hashes_to_remove # {} THEN "sel_analyze"
                     ELSE IF method = "xml" THEN "xml_document"
                     ELSE "simple_analyze"
            /\ UNCHANGED result
    /\ UNCHANGED <<engine, treeVars, serverVars, settings, skipped, work, staged, output,
                   images_to_remove, rel_ids_to_remove, rels_files_to_update, written,
                   scratch, text_replacements>>

\* Extract; mark every media file (no selection) or those whose hash is
\* selected; with nothing marked the input itself is handed on.
SimpleAnalyze ==
    /\ pc = "simple_analyze"
    /\ LET remove_all == image_hashes_to_remove = {}
           marked == { f \in Present(input) :
                         remove_all \/ sha256(input.media[f]) \in image_hashes_to_remove }
       IN  /\ work' = input
           /\ images_to_remove' = marked
           /\ IF marked = {}
              THEN /\ staged' = input
                   /\ scratch' = {}
                   /\ pc' = "safe_step1"
              ELSE /\ staged' = staged
                   /\ scratch' = {"simple_dir"}
                   /\ pc' = "simple_relids"
    /\ UNCHANGED <<engine, treeVars, serverVars, settings, outcome, output, rel_ids_to_remove,
                   rels_files_to_update, written, text_replacements>>

\* One set of ids gathered over every relationship table.
SimpleRelIds ==
    /\ pc = "simple_relids"
    /\ rel_ids_to_remove' =
           UNION { IdsTargeting(work.rels[p], images_to_remove) : p \in Parts }
    /\ pc' = "simple_runs_document"
    /\ UNCHANGED <<engine, treeVars, serverVars, settings, outcome, work, staged, output, images_to_remove,
                   rels_files_to_update, written, scratch, text_replacements>>

SimpleRuns(p, next) ==
    /\ work' = [work EXCEPT !.parts[p] =
                    remove_selected_image_runs(work.parts[p], rel_ids_to_remove)]
    /\ written' = written \cup {p}
    /\ pc' = next
    /\ UNCHANGED <<engine, treeVars, serverVars, settings, outcome, staged, output, images_to_remove,
                   rel_ids_to_remove, rels_files_to_update, scratch,
                   text_replacements>>

SimpleRunsDocument ==
    pc = "simple_runs_document" /\ SimpleRuns("document", "simple_runs_headers")

SimpleRunsHeaders ==
    pc = "simple_runs_headers" /\ SimpleRuns("header1", "simple_runs_footers")

\* A pipeline that unlinks the media files right after the run removals,
\* the relationship tables still uncleaned.
SimpleRunsFootersThenDelete ==
    pc = "simple_runs_footers" /\ SimpleRuns("footer1", "simple_delete")

SimpleRunsFooters ==
    pc = "simple_runs_footers" /\ SimpleRuns("footer1", "simple_rels")

\* "4. Clean relationships"
SimpleCleanRels ==
    /\ pc = "simple_rels"
    /\ work' = [work EXCEPT !.rels =
                    [p \in Parts |-> RemoveRels(work.rels[p], rel_ids_to_remove)]]
    /\ written' = written \cup {"rels"}
    /\ pc' = "simple_delete"
    /\ UNCHANGED <<engine, treeVars, serverVars, settings, outcome, staged, output, images_to_remove,
                   rel_ids_to_remove, rels_files_to_update, scratch,
                   text_replacements>>

\* "5. Delete physical image files"
SimpleDelete ==
    /\ pc = "simple_delete"
    /\ work' = Unlink(work, images_to_remove)
    /\ pc' = "simple_rebuild"
    /\ UNCHANGED <<engine, treeVars, serverVars, settings, outcome, staged, output, images_to_remove,
                   rel_ids_to_remove, rels_files_to_update, written, scratch,
                   text_replacements>>

\* "6. Rebuild DOCX" next to the input; the scratch directory goes.
SimpleRebuild ==
    /\ pc = "simple_rebuild"
    /\ staged' = work
    /\ scratch' = {"temp_no_selected_images"}
    /\ pc' = "safe_step1"
    /\ UNCHANGED <<engine, treeVars, serverVars, settings, outcome, work, output, images_to_remove,
                   rel_ids_to_remove, rels_files_to_update, written,
                   text_replacements>>

\* Step 1 of process_docx_safe on word/document.xml: colour forced to black
\* in every w:rPr and every w:shd removed, whatever the options say.
SafeStep1Run(run) == RemoveShd(ForceBlack(run))

\* The w:pStyle loop of step 1 is outside every try: its ValueError leaves
\* process_docx_safe, blind_file catches it and returns None; the file of
\* step 0 is not unlinked.
SafeStep1 ==
    /\ pc = "safe_step1"
    /\ IF PStyleRaises(staged, "document")
       THEN /\ pc' = "failed"
            /\ result' = "None"
            /\ UNCHANGED <<work, staged, scratch>>
       ELSE /\ LET pre == RemovePStyle(
                              [staged EXCEPT !.parts["document"] =
                                  MapRuns(staged.parts["document"], SafeStep1Run)],
                              "document")
               IN  /\ work' = pre
                   /\ staged' = pre
            /\ scratch' = {"preprocessed"}
            /\ pc' = "safe_step2"
            /\ UNCHANGED result
    /\ UNCHANGED <<engine, treeVars, serverVars, settings, skipped, output, images_to_remove,
                   rel_ids_to_remove, rels_files_to_update, written,
                   text_replacements>>

\* Step 2, per run of a body paragraph and per run of a header or footer
\* paragraph.
\* The keyword and formatting loop runs over paragraph.runs before the
\* hyperlinks are unwrapped.
SafeRunLoop(run, kr, o) ==
    IF InParagraphRuns(run) THEN standardize_run_formatting(SetRunText(run, kr), o)
    ELSE run

SafeBodyRun(run, kr, o) ==
    remove_paragraph_shading(
        remove_hyperlinks_from_paragraph(SafeRunLoop(run, kr, o), o))

SafeHeaderFooterRun(run, kr, o) ==
    remove_hyperlinks_from_paragraph(SafeRunLoop(run, kr, o), o)

\* re.error from the first run with text leaves process_docx_safe before
\* doc.save: blind_file returns None and the preprocessed file stays.
SafeStep2 ==
    /\ pc = "safe_step2"
    /\ IF \E p \in Parts : ReError(SelectSeq(staged.parts[p], InParagraphRuns),
                                    keyword_replacements)
       THEN /\ pc' = "failed"
            /\ result' = "None"
            /\ UNCHANGED <<output, text_replacements, scratch>>
       ELSE /\ output' = DocumentSave(ResetStyle(
                   [staged EXCEPT !.parts = [p \in Parts |->
                       IF p = "document"
                       THEN MapRuns(staged.parts[p],
                                LAMBDA run : SafeBodyRun(run, keyword_replacements, opts))
                       ELSE MapRuns(staged.parts[p],
                                LAMBDA run : SafeHeaderFooterRun(run, keyword_replacements,
                                                                 opts))]]))
            /\ text_replacements' =
                   Replaced(SelectSeq(staged.parts["document"], InParagraphRuns),
                            keyword_replacements)
                   + Replaced(SelectSeq(staged.parts["header1"], InParagraphRuns),
                              keyword_replacements)
                   + Replaced(SelectSeq(staged.parts["footer1"], InParagraphRuns),
                              keyword_replacements)
            /\ scratch' = {}
            /\ pc' = "done"
            /\ result' = "output_path"
    /\ UNCHANGED <<engine, treeVars, serverVars, settings, skipped, work, staged, images_to_remove,
                   rel_ids_to_remove, rels_files_to_update, written>>

-----------------------------------------------------------------------------
(* process_docx_selective.                                                 *)

\* should_remove_image: no selection removes everything, else by hash.
should_remove_image(data) ==
    image_hashes_to_remove = {} \/ sha256(data) \in image_hashes_to_remove

\* Phase 1: extract and mark the media files to remove.
SelAnalyze ==
    /\ pc = "sel_analyze"
    /\ work' = input
    /\ images_to_remove' = { f \in Present(input) : should_remove_image(input.media[f]) }
    /\ scratch' = {"selective_dir"}
    /\ pc' = "sel_relids"
    /\ UNCHANGED <<engine, treeVars, serverVars, settings, outcome, staged, output, rel_ids_to_remove,
                   rels_files_to_update, written, text_replacements>>

\* A pipeline that updates the table of the first part scanned only.
DocumentTableOnly(rels, files) == {"document"}

\* document.xml.rels is always updated, another table only if it targets a
\* marked file.
RelsFilesToUpdate(rels, files) ==
    {"document"} \cup { p \in Parts : IdsTargeting(rels[p], files) # {} }

\* The ids of document.xml.rels and of every other table go into one set.
SelRelIds ==
    /\ pc = "sel_relids"
    /\ rel_ids_to_remove' =
           UNION { IdsTargeting(work.rels[p], images_to_remove) : p \in Parts }
    /\ rels_files_to_update' = RelsFilesToUpdate(work.rels, images_to_remove)
    /\ pc' = "sel_rels"
    /\ UNCHANGED <<engine, treeVars, serverVars, settings, outcome, work, staged, output, images_to_remove,
                   written, scratch, text_replacements>>

\* "REMOVE RELATIONSHIPS FROM .RELS FILES", written before any part is edited.
SelRemoveRels ==
    /\ pc = "sel_rels"
    /\ work' = [work EXCEPT !.rels =
                    [p \in Parts |-> IF p \in rels_files_to_update
                                     THEN RemoveRels(work.rels[p], rel_ids_to_remove)
                                     ELSE work.rels[p]]]
    /\ written' = written \cup {"rels"}
    /\ pc' = "sel_document"
    /\ UNCHANGED <<engine, treeVars, serverVars, settings, outcome, staged, output, images_to_remove,
                   rel_ids_to_remove, rels_files_to_update, scratch,
                   text_replacements>>

\* document.xml: black, shading, image runs, keywords, then one write.
\* The w:pStyle loop and the keyword loop are outside every try: either
\* exception leaves process_docx_selective before document.xml is written,
\* the scratch directory goes and blind_file returns None.
SelDocument ==
    /\ pc = "sel_document"
    /\ LET cleaned == MapRuns(work.parts["document"], SafeStep1Run)
           kept    == remove_images_from_tree(cleaned, rel_ids_to_remove)
       IN  IF PStyleRaises(work, "document") \/ ReError(kept, keyword_replacements)
           THEN /\ pc' = "failed"
                /\ result' = "None"
                /\ scratch' = {}
                /\ UNCHANGED <<work, text_replacements, written>>
           ELSE /\ work' = RemovePStyle(
                               [work EXCEPT !.parts["document"] =
                                   MapRuns(kept, LAMBDA run :
                                               ReplaceText(run, keyword_replacements))],
                               "document")
                /\ text_replacements' = Replaced(kept, keyword_replacements)
                /\ written' = written \cup {"document"}
                /\ pc' = "sel_headers"
                /\ UNCHANGED <<result, scratch>>
    /\ UNCHANGED <<engine, treeVars, serverVars, settings, skipped, staged, output, images_to_remove,
                   rel_ids_to_remove, rels_files_to_update>>

\* process_header_footer_file: image runs, black, shading; no keywords.
process_header_footer_file(runs, ids) ==
    MapRuns(remove_images_from_tree(runs, ids), SafeStep1Run)

\* The body of process_header_footer_file is one try: an exception before
\* tree.write is printed, the helper returns 0 and the file stays as it was.
SelHeaderFooter(p, next) ==
    /\ IF PStyleRaises(work, p)
       THEN /\ skipped' = skipped \cup {p}
            /\ UNCHANGED <<work, written>>
       ELSE /\ work' = RemovePStyle(
                           [work EXCEPT !.parts[p] =
                               process_header_footer_file(work.parts[p],
                                                          rel_ids_to_remove)],
                           p)
            /\ written' = written \cup {p}
            /\ UNCHANGED skipped
    /\ pc' = next
    /\ UNCHANGED <<engine, treeVars, serverVars, settings, result, staged, output, images_to_remove,
                   rel_ids_to_remove, rels_files_to_update, scratch,
                   text_replacements>>

SelHeaders == pc = "sel_headers" /\ SelHeaderFooter("header1", "sel_footers")

SelFooters == pc = "sel_footers" /\ SelHeaderFooter("footer1", "sel_rebuild")

\* "Save to temp file WITHOUT deleting images yet"
SelRebuild ==
    /\ pc = "sel_rebuild"
    /\ staged' = work
    /\ scratch' = {"preprocessed"}
    /\ pc' = "sel_phase2"
    /\ UNCHANGED <<engine, treeVars, serverVars, settings, outcome, work, output, images_to_remove,
                   rel_ids_to_remove, rels_files_to_update, written,
                   text_replacements>>

\* Phase 2: python-docx standardizes every run and saves a second file.
SelPhase2 ==
    /\ pc = "sel_phase2"
    /\ staged' = DocumentSave(ResetStyle(
           [staged EXCEPT !.parts = [p \in Parts |->
               MapRuns(staged.parts[p],
                       LAMBDA run : standardize_run_formatting(run, opts))]]))
    /\ scratch' = {"temp_output"}
    /\ pc' = "sel_phase3"
    /\ UNCHANGED <<engine, treeVars, serverVars, settings, outcome, work, output, images_to_remove,
                   rel_ids_to_remove, rels_files_to_update, written,
                   text_replacements>>

\* Phase 3: extract the second file and unlink the marked media files.
SelDelete ==
    /\ pc = "sel_phase3"
    /\ work' = Unlink(staged, images_to_remove)
    /\ scratch' = {"temp_output", "final_dir"}
    /\ pc' = "sel_output"
    /\ UNCHANGED <<engine, treeVars, serverVars, settings, outcome, staged, output, images_to_remove,
                   rel_ids_to_remove, rels_files_to_update, written,
                   text_replacements>>

\* "Rebuild final DOCX", then the temporary file is unlinked.
SelOutput ==
    /\ pc = "sel_output"
    /\ output' = work
    /\ scratch' = {}
    /\ pc' = "done"
    /\ result' = "output_path"
    /\ UNCHANGED <<engine, treeVars, serverVars, settings, skipped, work, staged, images_to_remove,
                   rel_ids_to_remove, rels_files_to_update, written,
                   text_replacements>>

-----------------------------------------------------------------------------
(* process_docx_xml_safe.                                                  *)

\* The w:drawing (and, in document.xml only, the w:object) element is
\* removed from its parent; the run that held it stays.
StripElements(run, mechs) ==
    IF run.mech \in mechs THEN [run EXCEPT !.mech = "none", !.rid = NoRel] ELSE run

\* "Remove hyperlinks but keep text": the runs of a w:hyperlink are
\* inserted in its parent and the w:hyperlink is removed.
UnwrapHyperlink(run) == [run EXCEPT !.hyperlink = FALSE]

XmlRun(run, mechs, kr) ==
    ReplaceText(UnwrapHyperlink(ForceBlack(RemoveShd(StripElements(run, mechs)))), kr)

\* re.error from the keyword loop leaves process_docx_xml_safe before the
\* part is written; the scratch directory goes and blind_file returns None.
XmlPart(p, mechs, next) ==
    /\ LET dir == IF p = "document" THEN input ELSE work
       IN  IF ReError(dir.parts[p], keyword_replacements)
           THEN /\ pc' = "failed"
                /\ result' = "None"
                /\ work' = dir
                /\ scratch' = {}
                /\ UNCHANGED text_replacements
           ELSE /\ work' = [dir EXCEPT !.parts[p] =
                               MapRuns(@, LAMBDA run :
                                           XmlRun(run, mechs, keyword_replacements))]
                /\ text_replacements' = text_replacements
                       + Replaced(dir.parts[p], keyword_replacements)
                /\ scratch' = {"xml_dir"}
                /\ pc' = next
                /\ UNCHANGED result
    /\ UNCHANGED <<engine, treeVars, serverVars, settings, skipped, staged, output, images_to_remove,
                   rel_ids_to_remove, rels_files_to_update, written>>

XmlDocument ==
    pc = "xml_document" /\ XmlPart("document", {"drawing", "object"}, "xml_headers")

XmlHeaders == pc = "xml_headers" /\ XmlPart("header1", {"drawing"}, "xml_footers")

XmlFooters == pc = "xml_footers" /\ XmlPart("footer1", {"drawing"}, "xml_rebuild")

\* The working directory is zipped to output_path.
XmlRebuild ==
    /\ pc = "xml_rebuild"
    /\ output' = work
    /\ scratch' = {}
    /\ pc' = "done"
    /\ result' = "output_path"
    /\ UNCHANGED <<engine, treeVars, serverVars, settings, skipped, work, staged, images_to_remove,
                   rel_ids_to_remove, rels_files_to_update, written,
                   text_replacements>>

Next ==
    \/ BlindFile
    \/ SimpleAnalyze
    \/ SimpleRelIds
    \/ SimpleRunsDocument
    \/ SimpleRunsHeaders
    \/ SimpleRunsFooters
    \/ SimpleCleanRels
    \/ SimpleDelete
    \/ SimpleRebuild
    \/ SafeStep1
    \/ SafeStep2
    \/ SelAnalyze
    \/ SelRelIds
    \/ SelRemoveRels
    \/ SelDocument
    \/ SelHeaders
    \/ SelFooters
    \/ SelRebuild
    \/ SelPhase2
    \/ SelDelete
    \/ SelOutput
    \/ XmlDocument
    \/ XmlHeaders
    \/ XmlFooters
    \/ XmlRebuild

Spec == Init /\ [][Next]_vars

-----------------------------------------------------------------------------
(* The unwrapping loops: content controls (process_docx_safe,              *)
(* process_docx_selective, ultra_cleaner) and hyperlinks                   *)
(* (process_docx_xml_safe on ElementTree,                                  *)
(* remove_hyperlinks_from_paragraph on python-docx's lxml tree).           *)

\* The longest child list of the root of a parsed tree.
MaxKids == 3

Unwraps == {"sdt", "hyperlink_xml", "hyperlink_docx"}

\* The shading and border removal of step 1 of process_docx_safe
\* (ElementTree) and of its step 2 (python-docx).
Strips == {"shading_step1", "shading_docx"}

\* A table of one row: the first cell may have a w:tcPr with a w:shd, its
\* paragraph a w:pPr with a w:pBdr and a w:shd, and its run a w14:textFill
\* in the w:rPr; the second cell holds an empty paragraph.
TableName ==
    [n \in TableNodes |->
        <<"body", "tbl", "tr", "tc", "tc", "p", "p", "tcPr", "pPr", "shd", "pBdr",
          "r", "rPr", "t", "textFill", "shd">>[n]]

W == <<"{", "h", "t", "t", "p", ":", "/", "/", "s", "c", "h", "e", "m", "a",
     "s", ".", "o", "p", "e", "n", "x", "m", "l", "f", "o", "r", "m", "a",
     "t", "s", ".", "o", "r", "g", "/", "w", "o", "r", "d", "p", "r", "o",
     "c", "e", "s", "s", "i", "n", "g", "m", "l", "/", "2", "0", "0", "6",
     "/", "m", "a", "i", "n", "}">>

W14 == <<"{", "h", "t", "t", "p", ":", "/", "/", "s", "c", "h", "e", "m", "a",
       "s", ".", "m", "i", "c", "r", "o", "s", "o", "f", "t", ".", "c", "o",
       "m", "/", "o", "f", "f", "i", "c", "e", "/", "w", "o", "r", "d", "/",
       "2", "0", "1", "0", "/", "w", "o", "r", "d", "m", "l", "}">>

\* str(child.tag): the namespace in braces, then the local name.
TagStr ==
    [n \in TableNodes |->
        <<W \o <<"b", "o", "d", "y">>,
          W \o <<"t", "b", "l">>,
          W \o <<"t", "r">>,
          W \o <<"t", "c">>,
          W \o <<"t", "c">>,
          W \o <<"p">>,
          W \o <<"p">>,
          W \o <<"t", "c", "P", "r">>,
          W \o <<"p", "P", "r">>,
          W \o <<"s", "h", "d">>,
          W \o <<"p", "B", "d", "r">>,
          W \o <<"r">>,
          W \o <<"r", "P", "r">>,
          W \o <<"t">>,
          W14 \o <<"t", "e", "x", "t", "F", "i", "l", "l">>,
          W \o <<"s", "h", "d">> >>[n]]

\* A word list that also holds a word of the namespace.
ShadingWordsAndNamespace ==
    { <<"s", "h", "d">>, <<"f", "i", "l", "l">>, <<"w", "o", "r", "d">> }

\* remove_table_row_shading, remove_table_cell_shading:
\* ['shd', 'fill', 'background', 'bgcolor']
ShadingWords ==
    { <<"s", "h", "d">>, <<"f", "i", "l", "l">>,
      <<"b", "a", "c", "k", "g", "r", "o", "u", "n", "d">>,
      <<"b", "g", "c", "o", "l", "o", "r">> }

\* remove_paragraph_shading: ['shd', 'fill', 'highlight', 'bgcolor']
ParagraphShadingWords ==
    { <<"s", "h", "d">>, <<"f", "i", "l", "l">>,
      <<"h", "i", "g", "h", "l", "i", "g", "h", "t">>,
      <<"b", "g", "c", "o", "l", "o", "r">> }

\* remove_paragraph_borders: ['bdr', 'border', 'pBdr']
BorderWords ==
    { <<"b", "d", "r">>, <<"b", "o", "r", "d", "e", "r">>, <<"p", "B", "d", "r">> }

\* str.lower()
LowerAll(q) == [i \in 1..Len(q) |-> Lower(q[i])]

\* word in tag_str
Contains(word, q) ==
    \E i \in 1..(Len(q) - Len(word) + 1) : SubSeq(q, i, i + Len(word) - 1) = word

\* any(word in str(child.tag).lower() for word in words)
Matches(n, words) == \E word \in words : Contains(word, LowerAll(TagStr[n]))

\* The tag of an element: the root is the body or a paragraph, the leaves
\* are paragraphs or runs.
Tag(n, u) ==
    IF u \in Strips THEN TableName[n]
    ELSE IF n = Root THEN (IF u = "sdt" THEN "body" ELSE "p")
    ELSE IF n \in Wrappers THEN (IF u = "sdt" THEN "sdt" ELSE "hyperlink")
    ELSE IF n \in Leaves THEN (IF u = "sdt" THEN "p" ELSE "r")
    ELSE IF n \in {ContentOf(w) : w \in Wrappers} THEN "sdtContent"
    ELSE "sdtPr"

Range(q) == { q[i] : i \in 1..Len(q) }

\* Child lists without repetition.
Distinct(S, n) ==
    { q \in SeqsUpTo(S, n) : \A i, j \in 1..Len(q) : i # j => q[i] # q[j] }

\* Element.iter(): the elements below a list of subtrees, in document order.
RECURSIVE IterFrom(_, _)
IterFrom(t, ns) ==
    IF ns = <<>> THEN <<>>
    ELSE <<Head(ns)>> \o IterFrom(t, t[Head(ns)]) \o IterFrom(t, Tail(ns))

iter(t, n) == IterFrom(t, <<n>>)

\* root.findall('.//w:tag'): the descendants with the tag, in document order.
findall(t, n, u, tag) ==
    SelectSeq(IterFrom(t, t[n]), LAMBDA e : Tag(e, u) = tag)

\* element.find('.//w:tag'): the first of them, or None.
find(t, n, u, tag) ==
    IF findall(t, n, u, tag) = <<>> THEN NoNode ELSE Head(findall(t, n, u, tag))

\* {c: p for p in tree.iter() for c in p}: a later parent overwrites an
\* earlier one.
ParentMap(t) ==
    [c \in Nodes |->
        LET ps == SelectSeq(iter(t, Root), LAMBDA e : c \in Range(t[e]))
        IN  IF ps = <<>> THEN NoNode ELSE ps[Len(ps)]]

\* lxml's getparent(): the element whose child list holds c now.
getparent(t, c) ==
    IF \E e \in Nodes : c \in Range(t[e])
    THEN CHOOSE e \in Nodes : c \in Range(t[e])
    ELSE NoNode

\* list(parent).index(child), counted from 1.
Index(q, x) == CHOOSE i \in 1..Len(q) : q[i] = x /\ \A j \in 1..(i - 1) : q[j] # x

\* list.insert(i, x): x takes position i, or the end if i is beyond it.
InsertAt(q, i, x) ==
    IF i > Len(q) THEN Append(q, x)
    ELSE SubSeq(q, 1, i - 1) \o <<x>> \o SubSeq(q, i, Len(q))

\* list.remove(x): the first occurrence goes.
Remove(q, x) ==
    IF x \in Range(q)
    THEN SubSeq(q, 1, Index(q, x) - 1) \o SubSeq(q, Index(q, x) + 1, Len(q))
    ELSE q

\* `for child in list(sdt_content): parent.insert(sdt_index, child);
\* sdt_index += 1`
RECURSIVE InsertEach(_, _, _)
InsertEach(q, sdt_index, children) ==
    IF children = <<>> THEN q
    ELSE InsertEach(InsertAt(q, sdt_index, Head(children)), sdt_index + 1,
                    Tail(children))

\* `for i, child in enumerate(list(hyperlink)):
\* parent.insert(hyperlink_index + i, child)`
RECURSIVE InsertEnumerated(_, _, _, _)
InsertEnumerated(q, hyperlink_index, i, children) ==
    IF children = <<>> THEN q
    ELSE InsertEnumerated(InsertAt(q, hyperlink_index + i, Head(children)),
                          hyperlink_index, i + 1, Tail(children))

\* The trees that are parsed: the root holds up to MaxKids of wrapper 2,
\* wrapper 3 and two leaves; wrapper 2 holds wrapper 3 (if the root does
\* not) and a leaf; wrapper 3 holds a leaf.  A content control keeps its
\* children in a w:sdtContent after a w:sdtPr.
TreeOf(u, top, inA, inB) ==
    [n \in Nodes |->
        IF n = Root THEN top
        ELSE IF u = "sdt"
        THEN IF n \in Wrappers /\ n \in Range(top) \cup Range(inA)
             THEN <<PrOf(n), ContentOf(n)>>
             ELSE IF n = ContentOf(2) THEN inA
             ELSE IF n = ContentOf(3) THEN inB
             ELSE <<>>
        ELSE IF n = 2 THEN inA
        ELSE IF n = 3 THEN inB
        ELSE <<>>]

TableOf(two, cellPr, cellShd, pPr, inPPr, inRPr) ==
    [n \in Nodes |->
        IF n = 1 THEN <<2>>
        ELSE IF n = 2 THEN <<3>>
        ELSE IF n = 3 THEN (IF two THEN <<4, 5>> ELSE <<4>>)
        ELSE IF n = 4 THEN (IF cellPr THEN <<8, 6>> ELSE <<6>>)
        ELSE IF n = 5 THEN (IF two THEN <<7>> ELSE <<>>)
        ELSE IF n = 6 THEN (IF pPr THEN <<9, 12>> ELSE <<12>>)
        ELSE IF n = 8 THEN (IF cellPr /\ cellShd THEN <<10>> ELSE <<>>)
        ELSE IF n = 9 THEN (IF pPr THEN inPPr ELSE <<>>)
        ELSE IF n = 12 THEN <<13, 14>>
        ELSE IF n = 13 THEN inRPr
        ELSE <<>>]

Tables ==
    { TableOf(c.two, c.cellPr, c.cellShd, c.pPr, c.inPPr, c.inRPr) :
        c \in [two : BOOLEAN, cellPr : BOOLEAN, cellShd : BOOLEAN, pPr : BOOLEAN,
               inPPr : {<<>>, <<11>>, <<16>>, <<11, 16>>},
               inRPr : {<<>>, <<15>>}] }

Shapes(u) ==
    { TreeOf(u, sh.top, sh.inA, sh.inB) :
        sh \in { c \in [top : Distinct({2, 3, 8, 9}, MaxKids),
                        inA : Distinct({3, 10}, 2),
                        inB : {<<>>, <<11>>}] :
                    /\ 2 \notin Range(c.top) => c.inA = <<>>
                    /\ 3 \in Range(c.top) => 3 \notin Range(c.inA) } }

\* Every element below the root has one parent, and a wrapper that is not
\* in the tree holds nothing.
IsTree(t) ==
    /\ \A i, j \in 1..Len(iter(t, Root)) : i # j => iter(t, Root)[i] # iter(t, Root)[j]
    /\ \A n \in Nodes : t[n] # <<>> => n \in Range(iter(t, Root))

TreeInit ==
    /\ keywords = <<>>
    /\ keyword_replacements = <<>>
    /\ kpc = "idle"
    /\ orig_text = <<>>
    /\ text = <<>>
    /\ idx = 0
    /\ image_hashes_to_remove = {}
    /\ method = "safe"
    /\ opts = [standardize_formatting |-> TRUE, font_color_black |-> TRUE,
               remove_shading |-> TRUE]
    /\ input = <<>>
    /\ extension = ".docx"
    /\ work = <<>>
    /\ staged = <<>>
    /\ output = <<>>
    /\ pc = "idle"
    /\ images_to_remove = {}
    /\ rel_ids_to_remove = {}
    /\ rels_files_to_update = {}
    /\ written = {}
    /\ scratch = {}
    /\ text_replacements = 0
    /\ result = "pending"
    /\ skipped = {}
    /\ ServerIdle
    /\ unwrap \in Unwraps \cup Strips
    /\ tree \in (IF unwrap \in Strips THEN Tables
                 ELSE { t \in Shapes(unwrap) : IsTree(t) })
    /\ tree0 = tree
    /\ parent_map = [n \in Nodes |-> NoNode]
    /\ found = <<>>
    /\ underlined \in (IF unwrap \in {"hyperlink_xml", "hyperlink_docx"}
                       THEN SUBSET (Leaves \cap Range(iter(tree, Root)))
                       ELSE {{}})
    /\ tpc = "parsed"

\* The parent map is built once; findall returns the whole list before the
\* loop starts.  remove_hyperlinks_from_paragraph collects from
\* p_element.iter() and keeps no map.
BeginLoop ==
    /\ tpc = "parsed"
    /\ unwrap \in Unwraps
    /\ parent_map' = IF unwrap = "hyperlink_docx" THEN parent_map ELSE ParentMap(tree)
    /\ found' = findall(tree, Root, unwrap, IF unwrap = "sdt" THEN "sdt" ELSE "hyperlink")
    /\ tpc' = "loop"
    /\ UNCHANGED <<unwrap, tree, tree0, underlined>>
    /\ UNCHANGED engine
    /\ UNCHANGED <<docVars, serverVars>>

\* One iteration of `for sdt in root.findall('.//w:sdt')`.
UnwrapSdt ==
    /\ tpc = "loop"
    /\ unwrap = "sdt"
    /\ found # <<>>
    /\ LET sdt    == Head(found)
           parent == parent_map[sdt]
       IN  IF parent # NoNode
           THEN LET sdt_index   == Index(tree[parent], sdt)
                    sdt_content == find(tree, sdt, unwrap, "sdtContent")
                    spliced     == IF sdt_content # NoNode
                                   THEN InsertEach(tree[parent], sdt_index,
                                                   tree[sdt_content])
                                   ELSE tree[parent]
                IN  tree' = [tree EXCEPT ![parent] = Remove(spliced, sdt)]
           ELSE UNCHANGED tree
    /\ found' = Tail(found)
    /\ UNCHANGED <<unwrap, tree0, parent_map, underlined, tpc>>
    /\ UNCHANGED engine
    /\ UNCHANGED <<docVars, serverVars>>

\* One iteration of `for hyperlink in root.findall('.//w:hyperlink')` of
\* process_docx_xml_safe: w:u goes from the w:rPr of each child that is a
\* run; ElementTree's insert leaves the child in the hyperlink's list too.
UnwrapHyperlinkXml ==
    /\ tpc = "loop"
    /\ unwrap = "hyperlink_xml"
    /\ found # <<>>
    /\ LET hyperlink == Head(found)
           parent    == parent_map[hyperlink]
       IN  IF parent # NoNode
           THEN LET hyperlink_index == Index(tree[parent], hyperlink)
                    children        == tree[hyperlink]
                IN  /\ tree' = [tree EXCEPT ![parent] =
                                   Remove(InsertEnumerated(tree[parent], hyperlink_index,
                                                           0, children),
                                          hyperlink)]
                    /\ underlined' = underlined \ { c \in Range(children) :
                                                      Tag(c, unwrap) = "r" }
           ELSE UNCHANGED <<tree, underlined>>
    /\ found' = Tail(found)
    /\ UNCHANGED <<unwrap, tree0, parent_map, tpc>>
    /\ UNCHANGED engine
    /\ UNCHANGED <<docVars, serverVars>>

\* One iteration of `for hyperlink in hyperlinks` of
\* remove_hyperlinks_from_paragraph: w:u goes from every w:rPr below the
\* children; lxml's insert moves the child out of the hyperlink.
UnwrapHyperlinkDocx ==
    /\ tpc = "loop"
    /\ unwrap = "hyperlink_docx"
    /\ found # <<>>
    /\ LET hyperlink == Head(found)
           parent    == getparent(tree, hyperlink)
       IN  IF parent # NoNode
           THEN LET hyperlink_index      == Index(tree[parent], hyperlink)
                    children_to_preserve == tree[hyperlink]
                IN  /\ tree' = [tree EXCEPT
                                   ![parent] =
                                       Remove(InsertEnumerated(tree[parent],
                                                  hyperlink_index, 0,
                                                  children_to_preserve),
                                              hyperlink),
                                   ![hyperlink] = <<>>]
                    /\ underlined' = underlined \
                           Range(IterFrom(tree, children_to_preserve))
           ELSE UNCHANGED <<tree, underlined>>
    /\ found' = Tail(found)
    /\ UNCHANGED <<unwrap, tree0, parent_map, tpc>>
    /\ UNCHANGED engine
    /\ UNCHANGED <<docVars, serverVars>>

\* The loop ends; remove_hyperlinks_from_paragraph then sets
\* run.font.underline = None on the runs that are children of the paragraph.
EndLoop ==
    /\ tpc = "loop"
    /\ found = <<>>
    /\ underlined' = IF unwrap = "hyperlink_docx"
                     THEN underlined \ Range(tree[Root])
                     ELSE underlined
    /\ tpc' = "done"
    /\ UNCHANGED <<unwrap, tree, tree0, parent_map, found>>
    /\ UNCHANGED engine
    /\ UNCHANGED <<docVars, serverVars>>

\* Step 1 of process_docx_safe: `for shd in root.findall('.//w:shd')` with
\* the map built when the file was parsed.
BeginShading ==
    /\ tpc = "parsed"
    /\ unwrap = "shading_step1"
    /\ parent_map' = ParentMap(tree)
    /\ found' = findall(tree, Root, unwrap, "shd")
    /\ tpc' = "shd"
    /\ UNCHANGED <<unwrap, tree, tree0, underlined>>
    /\ UNCHANGED engine
    /\ UNCHANGED <<docVars, serverVars>>

\* `for pBdr in root.findall('.//w:pBdr')`, once the w:shd loop has ended.
BeginBorders ==
    /\ tpc = "shd"
    /\ found = <<>>
    /\ found' = findall(tree, Root, unwrap, "pBdr")
    /\ tpc' = "loop"
    /\ UNCHANGED <<unwrap, tree, tree0, parent_map, underlined>>
    /\ UNCHANGED engine
    /\ UNCHANGED <<docVars, serverVars>>

\* One iteration of either loop: parent.remove(element).
RemoveStep1 ==
    /\ unwrap = "shading_step1"
    /\ tpc \in {"shd", "loop"}
    /\ found # <<>>
    /\ LET parent == parent_map[Head(found)]
       IN  IF parent # NoNode
           THEN tree' = [tree EXCEPT ![parent] = Remove(@, Head(found))]
           ELSE UNCHANGED tree
    /\ found' = Tail(found)
    /\ UNCHANGED <<unwrap, tree0, parent_map, underlined, tpc>>
    /\ UNCHANGED engine
    /\ UNCHANGED <<docVars, serverVars>>

ChildrenTagged(t, n, name) == SelectSeq(t[n], LAMBDA e : TableName[e] = name)

\* The calls of "Process tables" in step 2, in order: per row
\* remove_table_row_shading, per cell remove_table_cell_shading, per
\* paragraph of the cell remove_paragraph_borders and
\* remove_paragraph_shading.
RECURSIVE ParagraphCalls(_)
ParagraphCalls(ps) ==
    IF ps = <<>> THEN <<>>
    ELSE << [fn |-> "paragraph_borders", el |-> Head(ps)],
            [fn |-> "paragraph_shading", el |-> Head(ps)] >>
         \o ParagraphCalls(Tail(ps))

RECURSIVE CellCalls(_, _)
CellCalls(t, cells) ==
    IF cells = <<>> THEN <<>>
    ELSE << [fn |-> "cell_shading", el |-> Head(cells)] >>
         \o ParagraphCalls(ChildrenTagged(t, Head(cells), "p"))
         \o CellCalls(t, Tail(cells))

RECURSIVE RowCalls(_, _)
RowCalls(t, rows) ==
    IF rows = <<>> THEN <<>>
    ELSE << [fn |-> "row_shading", el |-> Head(rows)] >>
         \o CellCalls(t, ChildrenTagged(t, Head(rows), "tc"))
         \o RowCalls(t, Tail(rows))

RECURSIVE TableCalls(_, _)
TableCalls(t, tables) ==
    IF tables = <<>> THEN <<>>
    ELSE RowCalls(t, ChildrenTagged(t, Head(tables), "tr"))
         \o TableCalls(t, Tail(tables))

\* `for table in doc.tables`
BeginTables ==
    /\ tpc = "parsed"
    /\ unwrap = "shading_docx"
    /\ found' = TableCalls(tree, ChildrenTagged(tree, Root, "tbl"))
    /\ tpc' = "loop"
    /\ UNCHANGED <<unwrap, tree, tree0, parent_map, underlined>>
    /\ UNCHANGED engine
    /\ UNCHANGED <<docVars, serverVars>>

WordsOf(fn) ==
    IF fn \in {"row_shading", "cell_shading"} THEN ShadingWords
    ELSE IF fn = "paragraph_shading" THEN ParagraphShadingWords
    ELSE BorderWords

\* `for elem in elements_to_remove: parent = elem.getparent(); if parent is
\* not None: parent.remove(elem)`
RECURSIVE RemoveAll(_, _)
RemoveAll(t, elems) ==
    IF elems = <<>> THEN t
    ELSE LET parent == getparent(t, Head(elems))
         IN  RemoveAll(IF parent # NoNode
                       THEN [t EXCEPT ![parent] = Remove(@, Head(elems))]
                       ELSE t,
                       Tail(elems))

\* One of the four functions on one row, cell or paragraph: the elements
\* below it (itself included) whose lowered tag holds a word of the list
\* are collected from element.iter(), then removed.  The XPath loops after
\* it look for w:shd and w:pBdr again, and find none.
CallRemoval ==
    /\ unwrap = "shading_docx"
    /\ tpc = "loop"
    /\ found # <<>>
    /\ LET call == Head(found)
           elements_to_remove ==
               SelectSeq(iter(tree, call.el), LAMBDA e : Matches(e, WordsOf(call.fn)))
       IN  tree' = RemoveAll(tree, elements_to_remove)
    /\ found' = Tail(found)
    /\ UNCHANGED <<unwrap, tree0, parent_map, underlined, tpc>>
    /\ UNCHANGED engine
    /\ UNCHANGED <<docVars, serverVars>>

TreeNext ==
    \/ BeginLoop
    \/ UnwrapSdt
    \/ UnwrapHyperlinkXml
    \/ UnwrapHyperlinkDocx
    \/ BeginShading
    \/ BeginBorders
    \/ RemoveStep1
    \/ BeginTables
    \/ CallRemoval
    \/ EndLoop

SpecTree == TreeInit /\ [][TreeNext]_vars

-----------------------------------------------------------------------------
(* Properties of the substitution engine (specification SpecKw).          *)

\* The left-to-right fold of single-rule substitution over a rule list.
RECURSIVE FoldRules(_, _)
FoldRules(t, rules) ==
    IF rules = <<>> THEN t
    ELSE FoldRules(ApplyRule(Head(rules), t), Tail(rules))

\* C1: a rule whose 'enabled' flag is false is never applied to any text:
\* for every stored list (the all-disabled list included) the loop of
\* replace_keywords_in_text visits no pattern that the stored list holds
\* only as a disabled rule.
C1_DisabledRuleNeverApplied ==
    (kpc = "loop" /\ idx <= Len(keyword_replacements)) =>
        \A j \in 1..Len(keywords) :
            keywords[j].original = keyword_replacements[idx].original =>
                \E k \in 1..Len(keywords) :
                    /\ keywords[k].original = keywords[j].original
                    /\ keywords[k].enabled

\* C11: a rule is treated as a regular expression if and only if its pattern
\* begins with \b or contains '[' anywhere; every other pattern is escaped
\* and matched as a literal.  Stated of the rule a loop iteration visits.
C11_RegexIffAnchorOrClass ==
    (kpc = "loop" /\ idx <= Len(keyword_replacements)) =>
        LET original == RuleAt(keyword_replacements, idx).original
        IN  RulePattern(original) =
                IF RegexIndicator(original) THEN Compile(original, 1)
                ELSE Escaped(original)

\* C12: substitution is idempotent: for every rule set, the built-in
\* defaults included, and every text, applying the rules to the result of
\* applying them changes nothing further.
C12_Idempotent ==
    (kpc = "done" /\ AllCompile(keyword_replacements)) =>
        replace_keywords_in_text(text, keyword_replacements) = text

\* C10 as stated: for every text and every rule list the result of
\* replace_keywords_in_text is the left-to-right fold of single-rule
\* substitution over the mapping, each rule scanning the output of the
\* rules before it.
C10_ResultIsFold ==
    (kpc = "done" /\ AllCompile(keyword_replacements)) =>
        text = FoldRules(orig_text, keyword_replacements)

\* C10 as amended: for every non-empty text the result is the left-to-right
\* fold of case-insensitive single-rule substitution over the mapping in
\* insertion order; an empty text is returned as it is, no rule applied.
C10_ResultIsFoldUnlessEmpty ==
    kpc = "done" =>
        text = IF orig_text = <<>> THEN <<>>
               ELSE FoldRules(orig_text, keyword_replacements)

\* A call on "a" under the rules a -> b, b -> c has returned "c": the second
\* rule scanned the first rule's output.
C10_ChainedWitness ==
    /\ kpc = "done"
    /\ orig_text = <<"a">>
    /\ Len(keyword_replacements) = 2
    /\ keyword_replacements[1].original = <<"a">>
    /\ keyword_replacements[2].original = <<"b">>
    /\ text = <<"c">>

-----------------------------------------------------------------------------
(* Properties of the DOCX pipelines (specification Spec).                  *)

Finished == pc = "done"

\* The media file an embedding of part p resolved to in the input.
EmbeddedFile(p, run) == FileName(input.rels[p][run.rid])

Selected(f) == sha256(input.media[f]) \in image_hashes_to_remove

\* The embeddings (mechanism, id) of the image runs of part p, in order, that
\* resolve in the input to a file satisfying Test.
EmbeddingsWhere(c, p, Test(_)) ==
    LET runs == SelectSeq(c.parts[p],
                          LAMBDA run : run.mech # "none" /\ Test(EmbeddedFile(p, run)))
    IN  [i \in 1..Len(runs) |-> <<runs[i].mech, runs[i].rid>>]

\* C2: with a non-empty selection a run is removed only if it embeds a
\* selected asset: in every part the runs embedding unselected assets are
\* those of the input, and every unselected asset file is in the output with
\* its bytes, whatever ids the per-part tables give the assets.
C2_OnlySelectedRemoved ==
    (Finished /\ image_hashes_to_remove # {}) =>
        /\ \A p \in Parts :
               EmbeddingsWhere(output, p, LAMBDA f : ~Selected(f))
                   = EmbeddingsWhere(input, p, LAMBDA f : ~Selected(f))
        /\ \A f \in Present(input) :
               ~Selected(f) => f \in Present(output) /\ output.media[f] = input.media[f]

\* C3: with no selection, and under either method, no run of the body, the
\* header or the footer of the output holds an embedding of any mechanism.
C3_AllEmbeddingsRemoved ==
    (Finished /\ image_hashes_to_remove = {}) =>
        \A p \in Parts : \A i \in 1..Len(output.parts[p]) :
            output.parts[p][i].mech = "none"

\* A container in which every embedding id resolves in its part's table and
\* every media target of a table is a file that exists.
NoDangling(c) ==
    /\ \A p \in Parts : \A i \in 1..Len(c.parts[p]) :
           c.parts[p][i].mech # "none" => c.rels[p][c.parts[p][i].rid] # NoRel
    /\ \A p \in Parts : \A r \in RelIds :
           IsMediaTarget(c.rels[p][r]) => FileName(c.rels[p][r]) \in Present(c)

\* C4: the working container has no dangling reference, neither when image
\* removal has finished nor in any state an interruption would leave behind.
C4_NoDanglingReferences == NoDangling(work)

AllEdits == {"rels", "document", "header1", "footer1"}

\* C5: a step that deletes a media file from the working container is taken
\* only when the run removals of every part and the relationship removals
\* have been performed and written.
C5_DeleteAfterStructuralEdits ==
    [][ (\E f \in Present(work) : f \notin Present(work')) => written = AllEdits ]_vars

\* A pipeline has deleted a media file of the input from its working
\* container.
C5_DeletedWitness ==
    /\ pc \in {"simple_rebuild", "sel_output"}
    /\ \E f \in Present(input) : f \in images_to_remove /\ f \notin Present(work)

PartsTargeting(f) == { p \in Parts : \E r \in RelIds : input.rels[p][r] = TargetOf(f) }

\* C6: after selective redaction an asset marked for removal that more than
\* one part references is embedded by no run of any part and targeted by no
\* entry of any relationship table.
C6_RemovedFromEveryPart ==
    (Finished /\ image_hashes_to_remove # {}) =>
        \A f \in images_to_remove :
            Cardinality(PartsTargeting(f)) > 1 =>
                /\ \A p \in Parts : EmbeddingsWhere(output, p, LAMBDA g : g = f) = <<>>
                /\ \A p \in Parts : \A r \in RelIds : output.rels[p][r] # TargetOf(f)

\* Selective redaction has finished on a document whose body and header
\* both embedded the selected image1, under different ids.
C6_TwoPartsWitness ==
    /\ Finished
    /\ image_hashes_to_remove = {"H1"}
    /\ input.rels["document"]["rId1"] = "media/image1.png"
    /\ input.rels["header1"]["rId2"] = "media/image1.png"
    /\ EmbeddingsWhere(input, "document", LAMBDA g : g = "image1.png") # <<>>
    /\ EmbeddingsWhere(input, "header1", LAMBDA g : g = "image1.png") # <<>>
    /\ "image1.png" \notin Present(output)

SameRuns(p) == Len(output.parts[p]) = Len(input.parts[p])

\* C7: each formatting option can be switched off on its own: without
\* font_color_black no run's colour changes, without remove_shading no
\* shading is removed, without standardize_formatting no run's font name or
\* size changes.
C7_OptionsIndependent ==
    Finished =>
        \A p \in Parts : SameRuns(p) => \A i \in 1..Len(input.parts[p]) :
            /\ ~opts.font_color_black =>
                   output.parts[p][i].color = input.parts[p][i].color
            /\ ~opts.remove_shading =>
                   output.parts[p][i].shd = input.parts[p][i].shd
            /\ ~opts.standardize_formatting =>
                   output.parts[p][i].font = input.parts[p][i].font

\* No rule of the mapping matches the text.
Unmatched(t, kr) ==
    \A i \in 1..Len(kr) : CountFrom(RulePattern(kr[i].original).els, t, 1) = 0

RECURSIVE PartText(_)
PartText(runs) == IF runs = <<>> THEN <<>> ELSE Head(runs).text \o PartText(Tail(runs))

\* C8: on a document no rule matches, with no selection and the default
\* options, the pipeline reports zero text replacements and the text of
\* every part is the text of the input.
C8_NoMatchNoChange ==
    ( /\ Finished
      /\ image_hashes_to_remove = {}
      /\ opts = DefaultOpts
      /\ \A p \in Parts : \A i \in 1..Len(input.parts[p]) :
             Unmatched(input.parts[p][i].text, keyword_replacements) ) =>
        /\ text_replacements = 0
        /\ \A p \in Parts : PartText(output.parts[p]) = PartText(input.parts[p])

TextRunCount(runs) == Len(SelectSeq(runs, LAMBDA run : run.text # <<>>))

\* C9: image removal takes a run away only if the run holds nothing but the
\* image: every run that carried text still carries text in the output.
C9_TextBesideImageKept ==
    Finished =>
        \A p \in Parts : TextRunCount(output.parts[p]) = TextRunCount(input.parts[p])

\* C13: a mapping that holds a malformed regex is rejected before anything
\* is modified or written: while blind_file runs with such a mapping no
\* part, relationship table or media file of a working copy differs from
\* the input, no intermediate or output file is written, and the run does
\* not return the output path.
C13_MalformedRuleRejectedUpFront ==
    ~AllCompile(keyword_replacements) =>
        /\ work \in {EmptyContainer, input}
        /\ staged \in {EmptyContainer, input}
        /\ output = EmptyContainer
        /\ result # "output_path"

\* C19: every step is fault-tolerant per node: with a mapping whose rules
\* all compile, a removal that fails on one node neither makes blind_file
\* give up (it still produces an output) nor makes it abandon the other
\* nodes of the part.
C19_NodeFailureIsLocal ==
    AllCompile(keyword_replacements) => (result # "None" /\ skipped = {})

\* C20: the caller can tell a fully processed document from one with
\* skipped parts: a run that abandoned a part does not return what a run
\* that skipped nothing returns, the output path.
C20_SkippedPartIsReported ==
    skipped # {} => result # "output_path"

\* The number of matches the loop of replace_keywords_in_text substitutes
\* from rule i on, each rule counted on the text the rules before it left.
RECURSIVE Substituted(_, _, _)
Substituted(current, kr, i) ==
    IF i > Len(kr) THEN 0
    ELSE CountFrom(RulePattern(RuleAt(kr, i).original).els, current, 1)
         + Substituted(ApplyRule(RuleAt(kr, i), current), kr, i + 1)

RECURSIVE SubstitutedIn(_, _)
SubstitutedIn(runs, kr) ==
    IF runs = <<>> THEN 0
    ELSE (IF Head(runs).text = <<>> THEN 0 ELSE Substituted(Head(runs).text, kr, 1))
         + SubstitutedIn(Tail(runs), kr)

\* The parts whose text a pipeline hands to replace_keywords_in_text: the
\* selective pipeline does so for document.xml only.
PartsReplaced == IF image_hashes_to_remove # {} THEN {"document"} ELSE Parts

NoImages(c) == \A p \in Parts : \A i \in 1..Len(c.parts[p]) : c.parts[p][i].mech = "none"

\* C14: the count a pipeline reports is the number of pattern matches it
\* substituted: on a document without images (every text span of the input
\* reaches the keyword loop) the reported text_replacements equals the
\* matches substituted over the runs of the parts the pipeline replaces in.
C14_CountIsMatchesSubstituted ==
    (Finished /\ NoImages(input) /\ AllCompile(keyword_replacements)) =>
        text_replacements =
            (IF "document" \in PartsReplaced
             THEN SubstitutedIn(input.parts["document"], keyword_replacements) ELSE 0)
            + (IF "header1" \in PartsReplaced
               THEN SubstitutedIn(input.parts["header1"], keyword_replacements) ELSE 0)
            + (IF "footer1" \in PartsReplaced
               THEN SubstitutedIn(input.parts["footer1"], keyword_replacements) ELSE 0)

-----------------------------------------------------------------------------
(* Properties of the unwrapping loops (specification SpecTree).            *)

\* The elements of the document: those reachable from the root.
InDocument(t) == Range(iter(t, Root))

\* C15: after the content-control loop no w:sdt is left anywhere in the
\* document, nested wrappers included.
C15_NoSdtRemains ==
    (tpc = "done" /\ unwrap = "sdt") =>
        \A n \in InDocument(tree) : Tag(n, unwrap) # "sdt"

\* What splicing gives: the list with the wrapper replaced, where it stands,
\* by the children of its content in their order.
Splice(q, w, children) ==
    SubSeq(q, 1, Index(q, w) - 1) \o children \o SubSeq(q, Index(q, w) + 1, Len(q))

\* C16: each unwrapping step splices the content children of the wrapper
\* into the element that holds the wrapper in the document, at the
\* wrapper's position and in their order, the siblings keeping theirs, no
\* child lost or duplicated.
C16_ContentSplicedInPlace ==
    [][ (tpc = "loop" /\ unwrap = "sdt" /\ found # <<>>) =>
            LET sdt    == Head(found)
                holder == CHOOSE e \in InDocument(tree) : sdt \in Range(tree[e])
            IN  tree'[holder] = Splice(tree[holder], sdt, tree[ContentOf(sdt)]) ]_vars

\* The runs of the document in document order: its concatenated text.
RunsInOrder(t) == SelectSeq(iter(t, Root), LAMBDA e : e \in Leaves)

\* C17: after the hyperlink loop no hyperlink is left in the paragraph, no
\* run that was below a hyperlink carries a w:u, and the runs of the
\* paragraph are the same in the same order.
C17_HyperlinksUnwrapped ==
    (tpc = "done" /\ unwrap \in {"hyperlink_xml", "hyperlink_docx"}) =>
        /\ \A n \in InDocument(tree) : Tag(n, unwrap) # "hyperlink"
        /\ \A w \in Wrappers : underlined \cap Range(IterFrom(tree0, tree0[w])) = {}
        /\ RunsInOrder(tree) = RunsInOrder(tree0)

\* The tables, rows, cells, paragraphs, runs and texts of the document.
Structural == {"tbl", "tr", "tc", "p", "r", "t"}

StructureOf(t) ==
    [n \in InDocument(tree0) |->
        SelectSeq(t[n], LAMBDA e : TableName[e] \in Structural)]

\* _cell_has_shading over the cells of the table: some element below a
\* cell has 'shd' in its lowered tag.
has_shading(t) ==
    \E c \in InDocument(t) :
        /\ TableName[c] = "tc"
        /\ \E e \in Range(iter(t, c)) : Matches(e, {<<"s", "h", "d">>})

-----------------------------------------------------------------------------
(* Properties of blind_file's temporary files (specification Spec).        *)

\* C21: when blind_file returns, with the output path or with None, every
\* scratch directory and every intermediate file the invocation created
\* (the image-free DOCX of step 0, the pre-processed DOCX, the phase-2
\* DOCX) has been deleted.
C21_ScratchDeletedOnReturn ==
    result # "pending" => scratch = {}

-----------------------------------------------------------------------------
(* Properties of blind_file's dispatch (specification Spec).               *)

\* C22: for an input whose suffix is not a supported one, the call surfaces
\* an unsupported-format error to its caller (the ValueError reaches the
\* caller) and no output file is produced.
C22_UnsupportedFormatSurfaced ==
    (extension \in Unsupported /\ result # "pending") =>
        /\ result = "ValueError"
        /\ output = EmptyContainer

-----------------------------------------------------------------------------
(* The two strategies compared (specification Spec).                       *)

\* The elements process_docx_xml_safe strips from a part: w:drawing and
\* w:object in document.xml, w:drawing in a header or footer.
XmlMechs(p) == IF p = "document" THEN {"drawing", "object"} ELSE {"drawing"}

\* What process_docx_xml_safe writes for a container, part by part.
process_docx_xml_safe(c, kr) ==
    [c EXCEPT !.parts = [p \in Parts |->
        MapRuns(c.parts[p], LAMBDA run : XmlRun(run, XmlMechs(p), kr))]]

\* The steps of the xml pipeline compose to that function.
XmlOutputIsComposition ==
    (Finished /\ image_hashes_to_remove = {} /\ method = "xml") =>
        output = process_docx_xml_safe(input, keyword_replacements)

\* The embeddings (mechanism, id) left in a part, in order.
Embeddings(runs) ==
    LET left == SelectSeq(runs, LAMBDA run : run.mech # "none")
    IN  [i \in 1..Len(left) |-> <<left[i].mech, left[i].rid>>]

\* The texts of the text leaves of a part, in order.
LeafTexts(runs) ==
    LET leaves == SelectSeq(runs, LAMBDA run : run.text # <<>>)
    IN  [i \in 1..Len(leaves) |-> leaves[i].text]

\* The number of runs of a part that are still shaded.
ShadedRuns(runs) == Len(SelectSeq(runs, LAMBDA run : run.shd))

\* C23: the safe and the xml strategy give equivalent results: with no
\* selection and a mapping whose rules compile, what the safe strategy
\* writes for an input has, in every part, the embeddings, the text of
\* every text leaf and the shading that the xml strategy leaves for the
\* same input and mapping.
C23_StrategiesEquivalent ==
    ( /\ Finished
      /\ image_hashes_to_remove = {}
      /\ method = "safe"
      /\ AllCompile(keyword_replacements) ) =>
        LET xml == process_docx_xml_safe(input, keyword_replacements)
        IN  \A p \in Parts :
                /\ Embeddings(output.parts[p]) = Embeddings(xml.parts[p])
                /\ LeafTexts(output.parts[p]) = LeafTexts(xml.parts[p])
                /\ ShadedRuns(output.parts[p]) = ShadedRuns(xml.parts[p])

-----------------------------------------------------------------------------
(* Two invocations of blind_file in one process (process_file builds a     *)
(* FileBlinder per request), on different documents of one directory.      *)
(* A file is what it was made from and the prefixes its document.xml is    *)
(* written with.                                                           *)

\* register_namespace(prefix, uri): every entry with that uri or that prefix
\* is deleted, then the uri is mapped to the prefix.
register_namespace(map, prefix, uri) ==
    [u \in URIs |-> IF u = uri THEN prefix
                    ELSE IF map[u] = prefix THEN NoPrefix ELSE map[u]]

\* for prefix, uri in namespaces.items(): ET.register_namespace(prefix, uri)
RECURSIVE RegisterAll(_, _)
RegisterAll(map, namespaces) ==
    IF namespaces = <<>> THEN map
    ELSE RegisterAll(register_namespace(map, Head(namespaces)[1], Head(namespaces)[2]),
                     Tail(namespaces))

\* What each pipeline registers before it parses.
Step0Namespaces == << <<"w", "W">>, <<"r", "R">>, <<"", "RELS">> >>

Step1Namespaces == << <<"w", "W">> >>

XmlNamespaces == << <<"w", "W">>, <<"r", "R">>, <<"a", "A">> >>

SelectiveNamespaces ==
    << <<"w", "W">>, <<"r", "R">>, <<"rel", "RELS">>, <<"v", "V">>, <<"o", "O">> >>

Kinds == {"safe", "xml", "selective"}

\* A document holds one inline image (which every pipeline removes) and,
\* if vml, a w:pict with a v:shape that holds no image data (a text box),
\* which no pipeline removes.
Jobs == [stem : Stems, kind : Kinds, vml : BOOLEAN]

\* The namespaces the elements of the processed document.xml are in.
Uses(job) == IF job.vml THEN {"W", "V"} ELSE {"W"}

\* The prefixes Word writes.
WordPrefix(u) == IF u = "W" THEN "w" ELSE "v"

Original(job) == [doc |-> job.stem, prefixes |-> [u \in Uses(job) |-> WordPrefix(u)]]

\* tree.write: an element's namespace is written with its registered prefix,
\* and with a generated prefix ns<k> if none is registered.
Serialize(map, uses) == [u \in uses |-> IF map[u] = NoPrefix THEN "ns" ELSE map[u]]

\* Nothing but the invocations runs: no engine call, no pipeline of the
\* single-invocation model, no tree loop.
EngineIdle ==
    /\ keywords = <<>>
    /\ keyword_replacements = <<>>
    /\ kpc = "idle"
    /\ orig_text = <<>>
    /\ text = <<>>
    /\ idx = 0

DocIdle ==
    /\ image_hashes_to_remove = {}
    /\ method = "safe"
    /\ opts = [standardize_formatting |-> TRUE, font_color_black |-> TRUE,
               remove_shading |-> TRUE]
    /\ input = <<>>
    /\ extension = ".docx"
    /\ work = <<>>
    /\ staged = <<>>
    /\ output = <<>>
    /\ pc = "idle"
    /\ images_to_remove = {}
    /\ rel_ids_to_remove = {}
    /\ rels_files_to_update = {}
    /\ written = {}
    /\ scratch = {}
    /\ text_replacements = 0
    /\ result = "pending"
    /\ skipped = {}

WorkersInit ==
    /\ EngineIdle
    /\ DocIdle
    /\ TreeIdle
    /\ DiffIdle
    /\ namespace_map = FreshMap
    /\ jobs \in { j \in [Workers -> Jobs] : j[1].stem # j[2].stem }
    /\ fs = [path \in Paths |->
                IF \E i \in Workers : jobs[i].stem = path
                THEN Original(CHOOSE job \in {jobs[1], jobs[2]} : job.stem = path)
                ELSE Absent]
    /\ wk = [i \in Workers |-> [pc |-> "start", read |-> Absent, wrote |-> {}]]

others == <<engine, docVars, treeVars, diffVars>>

\* blind_file: `if not input_path.exists(): raise FileNotFoundError`, then
\* the dispatch on the selection and the method.
Dispatch(i) ==
    /\ wk[i].pc = "start"
    /\ wk' = [wk EXCEPT ![i].pc =
                 IF fs[jobs[i].stem] = Absent THEN "failed"
                 ELSE IF jobs[i].kind = "selective" THEN "sel_register"
                 ELSE IF jobs[i].kind = "xml" THEN "xml_register"
                 ELSE "step0"]
    /\ UNCHANGED <<namespace_map, fs, jobs, others>>

\* A pipeline's first steps: the input is extracted (an exception if it is
\* gone, and blind_file returns None) and the prefixes are registered.
ExtractAndRegister(i, path, namespaces, next) ==
    /\ IF fs[path] = Absent
       THEN /\ wk' = [wk EXCEPT ![i].pc = "failed"]
            /\ UNCHANGED namespace_map
       ELSE /\ wk' = [wk EXCEPT ![i].pc = next, ![i].read = fs[path]]
            /\ namespace_map' = RegisterAll(namespace_map, namespaces)
    /\ UNCHANGED <<fs, jobs, others>>

\* remove_selected_images_simple up to its parsing.
Step0Extract(i) ==
    /\ wk[i].pc = "step0"
    /\ ExtractAndRegister(i, jobs[i].stem, Step0Namespaces, "step0_rebuild")

\* "6. Rebuild DOCX": the image-free copy is written next to the input,
\* under a name made from the input's stem, over whatever is there.
Step0Rebuild(i) ==
    /\ wk[i].pc = "step0_rebuild"
    /\ fs' = [fs EXCEPT ![TempNoImages(jobs[i].stem)] =
                 [doc |-> wk[i].read.doc,
                  prefixes |-> Serialize(namespace_map, DOMAIN wk[i].read.prefixes)]]
    /\ wk' = [wk EXCEPT ![i].pc = "step1",
                        ![i].wrote = @ \cup {TempNoImages(jobs[i].stem)}]
    /\ UNCHANGED <<namespace_map, jobs, others>>

\* process_docx_safe, step 1, up to its parsing.
Step1Extract(i) ==
    /\ wk[i].pc = "step1"
    /\ ExtractAndRegister(i, TempNoImages(jobs[i].stem), Step1Namespaces, "step1_write")

\* A pipeline writes document.xml with the prefixes registered at that
\* moment and zips its directory to a temporary file of its own.
WritePreprocessed(i, next) ==
    /\ fs' = [fs EXCEPT ![Preprocessed(i)] =
                 [doc |-> wk[i].read.doc,
                  prefixes |-> Serialize(namespace_map, DOMAIN wk[i].read.prefixes)]]
    /\ wk' = [wk EXCEPT ![i].pc = next, ![i].wrote = @ \cup {Preprocessed(i)}]
    /\ UNCHANGED <<namespace_map, jobs, others>>

Step1Write(i) == wk[i].pc = "step1_write" /\ WritePreprocessed(i, "step1_unlink")

\* "Clean up the temp file from step 0"
Step1Unlink(i) ==
    /\ wk[i].pc = "step1_unlink"
    /\ fs' = [fs EXCEPT ![TempNoImages(jobs[i].stem)] = Absent]
    /\ wk' = [wk EXCEPT ![i].pc = "step2"]
    /\ UNCHANGED <<namespace_map, jobs, others>>

\* python-docx loads the temporary file and saves the output, keeping the
\* prefixes it read; the temporary file is unlinked.
SaveOutput(i) ==
    /\ fs' = [fs EXCEPT ![OutputPath(i)] = fs[Preprocessed(i)],
                        ![Preprocessed(i)] = Absent]
    /\ wk' = [wk EXCEPT ![i].pc = "done", ![i].wrote = @ \cup {OutputPath(i)}]
    /\ UNCHANGED <<namespace_map, jobs, others>>

Step2Save(i) == wk[i].pc = "step2" /\ SaveOutput(i)

XmlExtract(i) ==
    /\ wk[i].pc = "xml_register"
    /\ ExtractAndRegister(i, jobs[i].stem, XmlNamespaces, "xml_write")

\* process_docx_xml_safe writes document.xml and zips its directory to the
\* output path.
XmlWrite(i) ==
    /\ wk[i].pc = "xml_write"
    /\ fs' = [fs EXCEPT ![OutputPath(i)] =
                 [doc |-> wk[i].read.doc,
                  prefixes |-> Serialize(namespace_map, DOMAIN wk[i].read.prefixes)]]
    /\ wk' = [wk EXCEPT ![i].pc = "done", ![i].wrote = @ \cup {OutputPath(i)}]
    /\ UNCHANGED <<namespace_map, jobs, others>>

SelectiveExtract(i) ==
    /\ wk[i].pc = "sel_register"
    /\ ExtractAndRegister(i, jobs[i].stem, SelectiveNamespaces, "sel_write")

SelectiveWrite(i) == wk[i].pc = "sel_write" /\ WritePreprocessed(i, "sel_phases")

\* Phases 2 and 3 of process_docx_selective.
SelectivePhases(i) == wk[i].pc = "sel_phases" /\ SaveOutput(i)

WorkersNext ==
    \E i \in Workers :
        \/ Dispatch(i)
        \/ Step0Extract(i)
        \/ Step0Rebuild(i)
        \/ Step1Extract(i)
        \/ Step1Write(i)
        \/ Step1Unlink(i)
        \/ Step2Save(i)
        \/ XmlExtract(i)
        \/ XmlWrite(i)
        \/ SelectiveExtract(i)
        \/ SelectiveWrite(i)
        \/ SelectivePhases(i)

SpecWorkers == WorkersInit /\ [][WorkersNext]_vars

-----------------------------------------------------------------------------
(* Properties of concurrent invocations (specification SpecWorkers).       *)

\* The prefixes a pipeline has registered when it writes document.xml, in a
\* process in which nothing else runs.
AloneMap(kind) ==
    CASE kind = "safe"      -> RegisterAll(RegisterAll(FreshMap, Step0Namespaces),
                                           Step1Namespaces)
      [] kind = "xml"       -> RegisterAll(FreshMap, XmlNamespaces)
      [] kind = "selective" -> RegisterAll(FreshMap, SelectiveNamespaces)

\* What an invocation writes to its output path when it runs alone.
AloneOutput(job) ==
    [doc |-> job.stem, prefixes |-> Serialize(AloneMap(job.kind), Uses(job))]

\* C24: two invocations that run concurrently on different documents share
\* no mutable state: no path one of them writes is a path the other writes
\* or the other's input, and under every interleaving an invocation that
\* finishes has written the output it writes when it runs alone.
C24_InvocationsIndependent ==
    \A i \in Workers : \A j \in Workers \ {i} :
        /\ wk[i].wrote \cap (wk[j].wrote \cup {jobs[j].stem}) = {}
        /\ wk[i].pc = "done" => fs[OutputPath(i)] = AloneOutput(jobs[i])

-----------------------------------------------------------------------------
(* The preview: extract_document_structure on the input, blind_file,       *)
(* extract_document_structure on the output, generate_diff.                *)
(* A .txt file is its content; a .docx file is what the extraction reads   *)
(* of it: per body paragraph the text, whether it holds a drawing and the  *)
(* formatting of its first run, and per body table whether a cell is       *)
(* shaded.                                                                 *)

MaxParas == 2

MaxTables == 2

MaxContent == 4

\* The characters of a text file: a letter the rule a -> b matches, a
\* space and a line feed.
ContentChars == {"a", " ", "\n"}

\* What str.strip() removes.
Whitespace == {" ", "\n"}

\* formatting of a paragraph without runs, and of one in Calibri 11 black.
NoFormatting ==
    [font_name |-> "None", font_size |-> 0, font_color |-> "None",
     is_bold |-> FALSE, is_italic |-> FALSE]

StandardFormatting ==
    [font_name |-> font_name, font_size |-> font_size, font_color |-> "#000000",
     is_bold |-> FALSE, is_italic |-> FALSE]

\* para.get('formatting', {}) of a record without the key.
EmptyDict ==
    [font_name |-> "absent", font_size |-> 0, font_color |-> "absent",
     is_bold |-> FALSE, is_italic |-> FALSE]

DocxParagraphs ==
    { [text |-> <<"a">>, has_image |-> FALSE, formatting |-> NoFormatting],
      [text |-> <<"b">>, has_image |-> FALSE, formatting |-> NoFormatting],
      [text |-> <<"a">>, has_image |-> TRUE,  formatting |-> NoFormatting],
      [text |-> <<"a">>, has_image |-> FALSE, formatting |-> StandardFormatting] }

\* Documents with paragraphs and no table, and with tables and no paragraph.
DocxFiles ==
    { [ext |-> ".docx", content |-> <<>>, paragraphs |-> ps, tables |-> <<>>] :
        ps \in SeqsUpTo(DocxParagraphs, MaxParas) }
    \cup
    { [ext |-> ".docx", content |-> <<>>, paragraphs |-> <<>>, tables |-> ts] :
        ts \in SeqsUpTo(BOOLEAN, MaxTables) }

TxtFiles ==
    { [ext |-> ".txt", content |-> c, paragraphs |-> <<>>, tables |-> <<>>] :
        c \in SeqsUpTo(ContentChars, MaxContent) }

OtherFiles ==
    { [ext |-> e, content |-> <<>>, paragraphs |-> <<>>, tables |-> <<>>] :
        e \in Unsupported }

\* content.split('\n\n'), from position pos on, piece being the characters
\* read since the last separator.
RECURSIVE SplitFrom(_, _, _)
SplitFrom(content, pos, piece) ==
    IF pos > Len(content) THEN <<piece>>
    ELSE IF pos < Len(content) /\ content[pos] = "\n" /\ content[pos + 1] = "\n"
         THEN <<piece>> \o SplitFrom(content, pos + 2, <<>>)
         ELSE SplitFrom(content, pos + 1, Append(piece, content[pos]))

split(content) == SplitFrom(content, 1, <<>>)

RECURSIVE lstrip(_)
lstrip(t) == IF t # <<>> /\ Head(t) \in Whitespace THEN lstrip(Tail(t)) ELSE t

RECURSIVE rstrip(_)
rstrip(t) ==
    IF t # <<>> /\ t[Len(t)] \in Whitespace THEN rstrip(SubSeq(t, 1, Len(t) - 1)) ELSE t

strip(t) == rstrip(lstrip(t))

\* [{'index': idx, 'text': para.strip()}
\*  for idx, para in enumerate(paragraphs) if para.strip()]
\* The record has no has_image and no formatting key: generate_diff reads
\* None and {} for them.
extract_txt_structure(content) ==
    LET paragraphs == split(content)
        enumerated == [i \in 1..Len(paragraphs) |-> [idx |-> i - 1, para |-> paragraphs[i]]]
        kept == SelectSeq(enumerated, LAMBDA e : strip(e.para) # <<>>)
    IN  [type       |-> "txt",
         paragraphs |-> [i \in 1..Len(kept) |->
                            [index |-> kept[i].idx, text |-> strip(kept[i].para),
                             has_image |-> FALSE, formatting |-> EmptyDict]],
         tables     |-> <<>>]

\* for idx, para in enumerate(doc.paragraphs); for table_idx, table in
\* enumerate(doc.tables).
extract_docx_structure(file) ==
    [type       |-> "docx",
     paragraphs |-> [i \in 1..Len(file.paragraphs) |->
                        [index |-> i - 1, text |-> file.paragraphs[i].text,
                         has_image |-> file.paragraphs[i].has_image,
                         formatting |-> file.paragraphs[i].formatting]],
     tables     |-> [i \in 1..Len(file.tables) |->
                        [index |-> i - 1, has_shading |-> file.tables[i]]]]

extract_document_structure(file) ==
    IF file.ext = ".docx" THEN extract_docx_structure(file)
    ELSE extract_txt_structure(file.content)

\* process_txt_file: the content with the keywords replaced.
process_txt_file(file, kr) ==
    [file EXCEPT !.content = replace_keywords_in_text(file.content, kr)]

Min(a, b) == IF a < b THEN a ELSE b

Max(a, b) == IF a < b THEN b ELSE a

\* What itertools.zip_longest would pair an element without partner with.
NoPartner ==
    [index |-> 0, text |-> <<>>, has_image |-> FALSE, formatting |-> EmptyDict,
     has_shading |-> FALSE]

\* A pairing that goes on to the end of the longer list.
zip_longest(a, b) ==
    [i \in 1..Max(Len(a), Len(b)) |->
        << IF i <= Len(a) THEN a[i] ELSE NoPartner,
           IF i <= Len(b) THEN b[i] ELSE NoPartner >>]

\* zip(a, b) stops at the end of the shorter list.
zip(a, b) == [i \in 1..Min(Len(a), Len(b)) |-> <<a[i], b[i]>>]

\* enumerate(zip(...))
Enumerated(pairs) ==
    [i \in 1..Len(pairs) |-> [idx |-> i - 1, orig |-> pairs[i][1], proc |-> pairs[i][2]]]

\* if orig_text != proc_text
TextChanged(orig_para, proc_para) == orig_para.text # proc_para.text

\* A test that reports every paragraph of the original that holds an image.
ImageInOriginal(orig_para, proc_para) == orig_para.has_image

\* if orig_para.get('has_image') and not proc_para.get('has_image')
ImageRemoved(orig_para, proc_para) == orig_para.has_image /\ ~proc_para.has_image

\* if orig_format != proc_format
FormatChanged(orig_para, proc_para) == orig_para.formatting # proc_para.formatting

\* if orig_table.get('has_shading') != proc_table.get('has_shading')
ShadingChanged(orig_table, proc_table) == orig_table.has_shading # proc_table.has_shading

\* The opcodes of difflib.SequenceMatcher are kept as the two texts they
\* are computed from; between different texts there is at least one opcode
\* other than 'equal', so every paragraph whose text changed gets an entry.
generate_diff(original, processed) ==
    LET paras  == Enumerated(zip(original.paragraphs, processed.paragraphs))
        tables == Enumerated(zip(original.tables, processed.tables))
        texts  == SelectSeq(paras, LAMBDA e : TextChanged(e.orig, e.proc))
        images == SelectSeq(paras, LAMBDA e : ImageRemoved(e.orig, e.proc))
        forms  == SelectSeq(paras, LAMBDA e : FormatChanged(e.orig, e.proc))
        shades == SelectSeq(tables, LAMBDA e : ShadingChanged(e.orig, e.proc))
    IN  [paragraph_changes |->
             [i \in 1..Len(texts) |->
                 [index |-> texts[i].idx,
                  changes |-> [original |-> texts[i].orig.text,
                               processed |-> texts[i].proc.text]]],
         image_changes |->
             [i \in 1..Len(images) |-> [paragraph_index |-> images[i].idx, removed |-> TRUE]],
         table_changes |->
             [i \in 1..Len(shades) |-> [index |-> shades[i].idx, shading_removed |-> TRUE]],
         formatting_changes |->
             [i \in 1..Len(forms) |->
                 [paragraph_index |-> forms[i].idx,
                  original |-> forms[i].orig.formatting,
                  processed |-> forms[i].proc.formatting]]]

DiffInit ==
    /\ EngineIdle
    /\ DocIdle
    /\ TreeIdle
    /\ namespace_map = FreshMap
    /\ fs = [path \in Paths |-> Absent]
    /\ jobs = <<>>
    /\ wk = <<>>
    /\ \E file \in DocxFiles \cup TxtFiles \cup OtherFiles :
           docs = [original |-> file, processed |-> file]
    /\ original_structure = <<>>
    /\ processed_structure = <<>>
    /\ diff_data = <<>>
    /\ dpc = "start"

apart == <<engine, docVars, treeVars, workerVars>>

\* extract_document_structure(input_path); a suffix without a branch raises
\* ValueError, which preview_file's handler turns into an error response.
ExtractOriginal ==
    /\ dpc = "start"
    /\ IF docs.original.ext \in Unsupported
       THEN /\ dpc' = "ValueError"
            /\ UNCHANGED original_structure
       ELSE /\ original_structure' = extract_document_structure(docs.original)
            /\ dpc' = "extracted"
    /\ UNCHANGED <<docs, processed_structure, diff_data, apart>>

\* blind_file writes the output: for a .txt the content with the keywords
\* replaced, for a .docx a document with paragraphs or with tables.
BlindForPreview ==
    /\ dpc = "extracted"
    /\ \/ /\ docs.original.ext = ".txt"
          /\ docs' = [docs EXCEPT !.processed = process_txt_file(docs.original, DocRules)]
       \/ /\ docs.original.ext = ".docx"
          /\ \E out \in DocxFiles :
                 /\ (out.tables = <<>>) = (docs.original.tables = <<>>)
                 /\ docs' = [docs EXCEPT !.processed = out]
    /\ dpc' = "blinded"
    /\ UNCHANGED <<original_structure, processed_structure, diff_data, apart>>

\* extract_document_structure(output_path)
ExtractProcessed ==
    /\ dpc = "blinded"
    /\ processed_structure' = extract_document_structure(docs.processed)
    /\ dpc' = "extracted_both"
    /\ UNCHANGED <<docs, original_structure, diff_data, apart>>

GenerateDiff ==
    /\ dpc = "extracted_both"
    /\ diff_data' = generate_diff(original_structure, processed_structure)
    /\ dpc' = "diffed"
    /\ UNCHANGED <<docs, original_structure, processed_structure, apart>>

DiffNext ==
    \/ ExtractOriginal
    \/ BlindForPreview
    \/ ExtractProcessed
    \/ GenerateDiff

SpecDiff == DiffInit /\ [][DiffNext]_vars

-----------------------------------------------------------------------------
(* Properties of the snapshots and of generate_diff (specification         *)
(* SpecDiff).                                                              *)

EmptyDiff ==
    [paragraph_changes |-> <<>>, image_changes |-> <<>>, table_changes |-> <<>>,
     formatting_changes |-> <<>>]

\* C25: a snapshot compared with itself gives an empty report: when the two
\* snapshots handed to generate_diff are the same, all four lists are empty.
C25_SelfDiffEmpty ==
    (dpc = "diffed" /\ original_structure = processed_structure) =>
        diff_data = EmptyDiff

\* generate_diff has compared a snapshot with an equal one that has a
\* paragraph holding an image.
C25_SelfDiffWitness ==
    /\ dpc = "diffed"
    /\ original_structure = processed_structure
    /\ \E i \in 1..Len(original_structure.paragraphs) :
           original_structure.paragraphs[i].has_image

\* A snapshot cut down to its first np paragraphs and first nt tables.
Truncated(snapshot, np, nt) ==
    [snapshot EXCEPT !.paragraphs = SubSeq(@, 1, np), !.tables = SubSeq(@, 1, nt)]

\* C26: paragraphs, and separately tables, are paired by position over the
\* common prefix only: every index of every entry is below the length of
\* the shorter list, and the report is the one the two snapshots give when
\* the excess elements of the longer are cut off.
C26_OnlyCommonPrefixCompared ==
    dpc = "diffed" =>
        LET np == Min(Len(original_structure.paragraphs),
                      Len(processed_structure.paragraphs))
            nt == Min(Len(original_structure.tables), Len(processed_structure.tables))
        IN  /\ \A i \in 1..Len(diff_data.paragraph_changes) :
                   diff_data.paragraph_changes[i].index < np
            /\ \A i \in 1..Len(diff_data.image_changes) :
                   diff_data.image_changes[i].paragraph_index < np
            /\ \A i \in 1..Len(diff_data.formatting_changes) :
                   diff_data.formatting_changes[i].paragraph_index < np
            /\ \A i \in 1..Len(diff_data.table_changes) :
                   diff_data.table_changes[i].index < nt
            /\ diff_data = generate_diff(Truncated(original_structure, np, nt),
                                         Truncated(processed_structure, np, nt))

\* generate_diff has compared an original with a processed snapshot that
\* has more paragraphs, the excess one with text, and has reported a change.
C26_LongerProcessedWitness ==
    /\ dpc = "diffed"
    /\ Len(original_structure.paragraphs) > 0
    /\ Len(original_structure.paragraphs) < Len(processed_structure.paragraphs)
    /\ diff_data.paragraph_changes # <<>>

IndexedByPosition(snapshot) ==
    \A i \in 1..Len(snapshot.paragraphs) : snapshot.paragraphs[i].index = i - 1

\* C27: in every extracted snapshot the index of a paragraph record is its
\* 0-based position in the paragraph list, so the index of a diff entry
\* names the record with that index.
C27_IndexIsPosition ==
    /\ dpc \in {"extracted", "blinded", "extracted_both", "diffed"} =>
           IndexedByPosition(original_structure)
    /\ dpc \in {"extracted_both", "diffed"} => IndexedByPosition(processed_structure)
    /\ dpc = "diffed" =>
           \A i \in 1..Len(diff_data.paragraph_changes) :
               LET e == diff_data.paragraph_changes[i]
               IN  original_structure.paragraphs[e.index + 1].index = e.index

\* C30: an entry of table_changes flagged shading_removed names a table
\* that is shaded in the original snapshot and not shaded in the processed
\* one; a table that gains shading gives no such entry.
C30_ShadingRemovedMeansRemoved ==
    dpc = "diffed" =>
        \A i \in 1..Len(diff_data.table_changes) :
            LET e == diff_data.table_changes[i]
            IN  e.shading_removed =>
                    /\ original_structure.tables[e.index + 1].has_shading
                    /\ ~processed_structure.tables[e.index + 1].has_shading

-----------------------------------------------------------------------------
(* Completeness of the substitution (specification Spec).                  *)

\* C28: after blind_file on a .docx, with any strategy and a mapping whose
\* rules compile, no text leaf of the output still holds a match of a rule
\* pattern, whether the leaf is in the body, a header or a footer, and
\* whether or not its run was inside a hyperlink.  (No replacement text of
\* the mappings drawn holds a match itself.)
C28_NoMatchLeft ==
    (Finished /\ AllCompile(keyword_replacements)) =>
        \A p \in Parts : \A i \in 1..Len(output.parts[p]) :
            Unmatched(output.parts[p][i].text, keyword_replacements)

-----------------------------------------------------------------------------
(* Relationship clean-up (specification Spec).                             *)

\* The entry r of part p's input table targets something other than an
\* asset marked for removal: an unmarked media file or a non-media part.
TargetsUnmarked(p, r) ==
    /\ input.rels[p][r] # NoRel
    /\ IsMediaTarget(input.rels[p][r]) => ~Selected(FileName(input.rels[p][r]))

\* The runs of part p that reference the entry r of its table, in order.
RunsReferencing(c, p, r) ==
    SelectSeq(c.parts[p], LAMBDA run : run.mech # "none" /\ run.rid = r)

\* C29: with a selection, an entry of a part's relationship table that
\* targets an unmarked asset or a non-media part is still in that table
\* when the pipeline has finished, and the runs of the part that reference
\* it are the runs of the input, whatever ids the other parts' tables give
\* the marked assets.
C29_OnlyMarkedEntriesRemoved ==
    (Finished /\ image_hashes_to_remove # {}) =>
        \A p \in Parts : \A r \in RelIds :
            TargetsUnmarked(p, r) =>
                /\ output.rels[p][r] = input.rels[p][r]
                /\ Len(RunsReferencing(output, p, r)) = Len(RunsReferencing(input, p, r))

====
